---------------------------- MODULE Spec2Model ----------------------------
(***************************************************************************)
(* zkDilithium signer (madars/zkdilithium-signer): a model of the Poseidon *)
(* sponge (pkg/hash/poseidon.go) and of Gen / Sign / Verify                *)
(* (pkg/dilithium/dilithium.go) over the field Z_Q, Q = 7340033.           *)
(*                                                                         *)
(* Arrays keep the source's 0-based indices: a Go array of length n is a   *)
(* function with domain 0..n-1.  Integers stay below 2^31, so a product    *)
(* of two field elements is formed limb by limb (Mul).                     *)
(***************************************************************************)
EXTENDS Integers, Sequences, FiniteSets, TLC

-----------------------------------------------------------------------------
(* State: one sponge under an arbitrary sequence of calls, and one run   *)
(* of Gen, Sign and Verify.                                                *)

VARIABLES
    s,          \* Poseidon.s
    absorbing,  \* Poseidon.absorbing
    i,          \* Poseidon.i
    perms,      \* ghost: calls of perm() so far
    ret,        \* what the last Read returned
    op,         \* the last call: its name, its argument size, the call
                \* before it, whether a Read came before it, whether it
                \* panicked
    pre,        \* the sponge before the last call
    calls,      \* number of calls so far
    pc,         \* where the run of Gen, Sign and Verify stands
    pk,         \* Gen's public key
    sk,         \* Gen's secret key
    msg,        \* the message Sign is called with
    sgn,        \* Sign's locals
    yNonce,     \* Sign's yNonce
    nonces,     \* ghost: the nonce of each SampleY call of Sign
    gates,      \* ghost: how each iteration of Sign's loop ended
    sig,        \* what Sign returned
    vin,        \* Verify's arguments
    ver,        \* Verify's locals
    verdict,    \* what Verify returned: "true", "false" or "panic"
    trMemo,     \* H's answers so far
    hcMemo,     \* the challenge sponge's answers so far
    ballMemo,   \* the ball sponge's answers so far
    call        \* a function applied on its own: its name, argument and value

-----------------------------------------------------------------------------
(* pkg/field: constants *)

Q == 7340033

PosT == 35

PosRate == 24

PosRF == 21

\* The permutation applies rounds 0..PermRounds-1 of the PosRF rounds of the
\* source, with the source's round constants for those rounds.
PermRounds == 2

-----------------------------------------------------------------------------
(* pkg/field: arithmetic *)

Mod(x) == x % Q

Add(a, b) == IF a + b >= Q THEN a + b - Q ELSE a + b

Sub(a, b) == IF a - b < 0 THEN a - b + Q ELSE a - b

\* (a * b) % Q for a, b < 2^24, with b split in three 8-bit limbs so that no
\* intermediate value reaches 2^31.
Mul(a, b) ==
    LET b2 == b \div 65536
        b1 == (b \div 256) % 256
        b0 == b % 256
        h  == (a * b2) % Q
        m  == (((h * 256) % Q) + ((a * b1) % Q)) % Q
    IN  (((m * 256) % Q) + ((a * b0) % Q)) % Q

Neg(a) == IF a = 0 THEN 0 ELSE Q - a

\* bit k of x
Bit(x, k) == (x \div (2 ^ k)) % 2

\* square-and-multiply; result and base stay field elements in every pass
RECURSIVE ExpLoop(_, _, _)
ExpLoop(result, base, e) ==
    IF e = 0 THEN result
    ELSE LET r == IF e % 2 = 1 THEN Mul(result, base) ELSE result
             b == Mul(base, base)
         IN  IF r < Q /\ b < Q THEN ExpLoop(r, b, e \div 2) ELSE Q

Exp(a, e) == ExpLoop(1, a, e)

Inv(a) == IF a = 0 THEN 0 ELSE Exp(a, Q - 2)

-----------------------------------------------------------------------------
(* pkg/field: Montgomery form, R = 2^32.  The reductions are modelled by  *)
(* their value: for t < R*Q the source's (t + m*Q) >> 32 with the          *)
(* conditional subtraction is the canonical t * R^-1 mod Q.                *)

r2ModQ == 3338324

RModQ == Exp(2, 32)

RInvModQ == Inv(RModQ)

\* MontReduce of a value known modulo Q
MontReduce(t) == Mul(t % Q, RInvModQ)

MulMont(a, b) == MontReduce(Mul(a % Q, b % Q))

ToMont(a) == MulMont(a, r2ModQ)

FromMont(aM) == MulMont(aM, 1)

\* (a^-1)_M from a_M; InvMont(0) = 0
InvMont(aM) == IF aM = 0 THEN 0 ELSE ToMont(Inv(FromMont(aM)))

-----------------------------------------------------------------------------
(* pkg/hash: Poseidon tables, as init() leaves them *)

\* An array as a stored value: the elements are evaluated once, when the
\* array is built, as the source's assignments to its elements are.
Array(f) == IF f = f THEN f ELSE f

\* the field elements the Grain LFSR yields for rounds 0, 1 and 2
PosRCs ==
    <<
       662000, 7104925, 2304656, 2330809, 452951, 1722141, 5334010,
       7087604, 5110463, 6023804, 3061965, 6087945, 3740272, 284272,
       4421217, 559188, 2451116, 5166382, 1266141, 6146453, 98605,
       6457465, 3862660, 3730805, 2382683, 4618147, 4853405, 5705911,
       2890027, 1519982, 4886470, 6206089, 2972651, 1779089, 4502484,
       33447, 4127979, 2696255, 4317716, 3136728, 4239365, 6376598,
       6010324, 4240121, 2954379, 2279853, 6723143, 3618232, 3667006,
       6011313, 5175125, 5835856, 583432, 6418692, 2188228, 4169109,
       3712972, 905378, 6181750, 4315208, 377317, 1681180, 993189,
       4128551, 3192117, 2275231, 3389422, 3384878, 304003, 2280780,
       7317237, 3273769, 7016579, 5904011, 6930049, 2279290, 473432,
       1691833, 551855, 7037926, 6720690, 534734, 3977207, 6159558,
       3012717, 2331674, 2273618, 6397294, 3695510, 2115285, 4400026,
       6760835, 5763313, 5788342, 1808664, 3362494, 1473780, 5242910,
       6409721, 4871541, 1264516, 1229011, 3150517, 979822, 4619461
    >>

PosRCsMont == Array([k \in 0..(Len(PosRCs) - 1) |-> ToMont(PosRCs[k + 1])])

PosInvMont == Array([k \in 0..((2 * PosT) - 2) |-> ToMont(Inv(k + 1))])

-----------------------------------------------------------------------------
(* pkg/hash: the Poseidon permutation.  State in Montgomery form.          *)

\* S-box x -> x^-1 on every element; a zero element stays zero
BatchInvMontTreeCond(xs) == Array([k \in DOMAIN xs |-> InvMont(xs[k])])

\* row of the MDS product, M_ij = 1 / (i + j + 1): the 35 products are
\* accumulated in three chains and reduced once
MDSRowOn(invs, old, row) ==
    LET inv == Array([j \in 0..(PosT - 1) |-> invs[row + j]])
        s01 ==
                Mul(inv[0], old[0]) + Mul(inv[1], old[1])
              + Mul(inv[5], old[5]) + Mul(inv[6], old[6])
              + Mul(inv[10], old[10]) + Mul(inv[11], old[11])
              + Mul(inv[15], old[15]) + Mul(inv[16], old[16])
              + Mul(inv[20], old[20]) + Mul(inv[21], old[21])
              + Mul(inv[25], old[25]) + Mul(inv[26], old[26])
              + Mul(inv[30], old[30]) + Mul(inv[31], old[31])
        s23 ==
                Mul(inv[2], old[2]) + Mul(inv[3], old[3])
              + Mul(inv[7], old[7]) + Mul(inv[8], old[8])
              + Mul(inv[12], old[12]) + Mul(inv[13], old[13])
              + Mul(inv[17], old[17]) + Mul(inv[18], old[18])
              + Mul(inv[22], old[22]) + Mul(inv[23], old[23])
              + Mul(inv[27], old[27]) + Mul(inv[28], old[28])
              + Mul(inv[32], old[32]) + Mul(inv[33], old[33])
        s4  ==
                Mul(inv[4], old[4]) + Mul(inv[9], old[9])
              + Mul(inv[14], old[14]) + Mul(inv[19], old[19])
              + Mul(inv[24], old[24]) + Mul(inv[29], old[29])
              + Mul(inv[34], old[34])
    IN  MontReduce(s01 + s23 + s4)

\* poseidonRound reading the round constants and the MDS inverses from the
\* tables handed to it
poseidonRoundOn(rcs, invs, state, r) ==
    LET added   == Array([k \in 0..(PosT - 1) |->
                             Add(state[k], rcs[(PosT * r) + k])])
        scratch == BatchInvMontTreeCond(added)
    IN  Array([k \in 0..(PosT - 1) |-> MDSRowOn(invs, scratch, k)])

MDSRow(old, row) == MDSRowOn(PosInvMont, old, row)

poseidonRound(state, r) == poseidonRoundOn(PosRCsMont, PosInvMont, state, r)

RECURSIVE PermLoop(_, _)
PermLoop(state, r) ==
    IF r >= PermRounds THEN state
    ELSE LET next == poseidonRound(state, r)
         IN  IF next = next THEN PermLoop(next, r + 1) ELSE next

PoseidonPerm(state) == PermLoop(state, 0)

-----------------------------------------------------------------------------
(* pkg/hash: the Poseidon sponge.  A sponge value is the record            *)
(* [s, absorbing, i] of the struct's fields, with the ghost field perms   *)
(* counting the calls of perm().  An operation yields the sponge it        *)
(* leaves, whether it panicked, and what it returned.                      *)

perm(p) == [p EXCEPT !.s = PoseidonPerm(p.s), !.perms = p.perms + 1]

Done(p, out) == [p |-> p, panicked |-> FALSE, ret |-> out]

Panic(p) == [p |-> p, panicked |-> TRUE, ret |-> <<>>]

\* The loop of Write, from element k of fes on.  The elements that fit
\* below the rate are added in one step: element k + j goes to s[i + j],
\* and the position advances by their number; at the rate the permutation
\* is applied, the position returns to 0 and the loop goes on.
RECURSIVE WriteLoop(_, _, _)
WriteLoop(p, fes, k) ==
    IF k > Len(fes) THEN Done(p, <<>>)
    ELSE LET left == Len(fes) - k + 1
             m    == IF left > PosRate - p.i THEN PosRate - p.i ELSE left
             p1   == [p EXCEPT
                        !.s = Array([x \in 0..(PosT - 1) |->
                                  IF p.i <= x /\ x < p.i + m
                                  THEN Add(p.s[x], ToMont(fes[k + (x - p.i)]))
                                  ELSE p.s[x]]),
                        !.i = p.i + m]
         IN  IF p1.i = PosRate
             THEN WriteLoop([perm(p1) EXCEPT !.i = 0], fes, k + m)
             ELSE Done(p1, <<>>)

\* a Write that absorbs whatever the flag says (C8 excludes it)
PoseidonWriteUnguarded(p, fes) == WriteLoop(p, fes, 1)

\* a Write that starts every call at position 0 (C29 excludes it)
PoseidonWriteFromZero(p, fes) ==
    IF ~p.absorbing THEN Panic(p) ELSE WriteLoop([p EXCEPT !.i = 0], fes, 1)

PoseidonWrite(p, fes) ==
    IF ~p.absorbing THEN Panic(p) ELSE WriteLoop(p, fes, 1)

PoseidonPermute(p) ==
    IF ~p.absorbing THEN Panic(p)
    ELSE IF p.i # 0 THEN Done([perm(p) EXCEPT !.i = 0], <<>>)
    ELSE Done(p, <<>>)

\* a switch to squeezing that permutes whenever it is performed (C10
\* excludes it)
FinalizeAgain(p) == [perm(p) EXCEPT !.absorbing = FALSE, !.i = 0]

\* the switch to squeezing at the head of Read
Finalize(p) ==
    IF p.absorbing
    THEN LET q == [p EXCEPT !.absorbing = FALSE]
         IN  IF q.i # 0 THEN [perm(q) EXCEPT !.i = 0] ELSE q
    ELSE p

\* a Read loop in which the position only counts up (C9 excludes it)
ReadLoopNoReset(p, n, out) == Done([p EXCEPT !.i = p.i + n], out)

RECURSIVE ReadLoop(_, _, _)
ReadLoop(p, n, out) ==
    IF n <= 0 THEN Done(p, out)
    ELSE LET toRead == IF n > PosRate - p.i THEN PosRate - p.i ELSE n
             got    == [j \in 1..toRead |-> FromMont(p.s[p.i + j - 1])]
             p1     == [p EXCEPT !.i = p.i + toRead]
         IN  IF p1.i = PosRate
             THEN ReadLoop(perm([p1 EXCEPT !.i = 0]), n - toRead, out \o got)
             ELSE ReadLoop(p1, n - toRead, out \o got)

\* make([]uint32, 0, n) panics for a negative n, after the switch
PoseidonRead(p, n) ==
    LET q == Finalize(p)
    IN  IF n < 0 THEN Panic(q) ELSE ReadLoop(q, n, <<>>)

PoseidonApplyPerm(p) == Done(perm(p), <<>>)

ZeroState == [k \in 0..(PosT - 1) |-> 0]

\* NewPoseidon(initial); initial = <<>> stands for nil
NewPoseidon(initial) ==
    PoseidonWrite([s |-> ZeroState, absorbing |-> TRUE, i |-> 0, perms |-> 0],
                  initial).p

-----------------------------------------------------------------------------
(* pkg/field: the signature scheme's parameters.  The ring degree is       *)
(* N = 2^NBits and the challenge weight Tau = BallCycles * PosCycleLen;    *)
(* the source has NBits = 8 and five cycles (Tau = 40).  Q, Gamma1,        *)
(* Gamma2, Eta, K, L and the encodings are the source's.                   *)

NBits == 3

N == 2 ^ NBits

Zeta == 3483618

InvZeta == 3141965

Inv2 == 3670017

Gamma1 == 131072

Gamma2 == 65536

Eta == 2

K == 4

L == 4

PosCycleLen == 8

\* number of permutation cycles SampleInBall runs
BallCycles == 1

Tau == BallCycles * PosCycleLen

Beta == Tau * Eta

CSize == 12

MuSize == 24

\* bytes of a packed polynomial: 18 bits, 3 bits, 3 bytes per coefficient
PolyLeGamma1Size == (N * 18) \div 8

PolyLeqEtaSize == (N * 3) \div 8

PolySize == N * 3

\* bits.Reverse8
Brv(x) ==
    (128 * Bit(x, 0)) + (64 * Bit(x, 1)) + (32 * Bit(x, 2)) + (16 * Bit(x, 3))
    + (8 * Bit(x, 4)) + (4 * Bit(x, 5)) + (2 * Bit(x, 6)) + Bit(x, 7)

\* a Decompose that takes the negative low part from Gamma2 on
DecomposeFromGamma2(r) ==
    LET m  == r % (2 * Gamma2)
        r0 == IF m >= Gamma2 THEN m - (2 * Gamma2) ELSE m
    IN  IF r - r0 = Q - 1
        THEN [r0 |-> r0 - 1, r1 |-> 0]
        ELSE [r0 |-> r0, r1 |-> (r - r0) \div (2 * Gamma2)]

\* a Decompose whose corner case keeps r0
DecomposeCornerKeepsR0(r) ==
    LET m  == r % (2 * Gamma2)
        r0 == IF m > Gamma2 THEN m - (2 * Gamma2) ELSE m
    IN  IF r - r0 = Q - 1
        THEN [r0 |-> r0, r1 |-> 0]
        ELSE [r0 |-> r0, r1 |-> (r - r0) \div (2 * Gamma2)]

Decompose(r) ==
    LET m  == r % (2 * Gamma2)
        r0 == IF m > Gamma2 THEN m - (2 * Gamma2) ELSE m
    IN  IF r - r0 = Q - 1
        THEN [r0 |-> r0 - 1, r1 |-> 0]
        ELSE [r0 |-> r0, r1 |-> (r - r0) \div (2 * Gamma2)]

-----------------------------------------------------------------------------
(* pkg/ntt.  Layer by layer: within a layer the butterflies touch          *)
(* disjoint pairs (j, j + layer), and block number b of the layer uses     *)
(* the zeta with index zi = (blocks of the layers before) + b.             *)

ZetasMont == Array([x \in 0..(N - 1) |-> ToMont(Exp(Zeta, Brv(x + 1)))])

InvZetasMont ==
    Array([x \in 0..(N - 1) |->
              ToMont(Exp(InvZeta, 256 - Brv((N - 1) - x)))])

Inv2Mont == ToMont(Inv2)

NTTLayerOn(zetas, cs, layer) ==
    Array([j \in 0..(N - 1) |->
        LET z == zetas[((N \div (2 * layer)) - 1) + (j \div (2 * layer))]
        IN  IF j % (2 * layer) < layer
            THEN Add(cs[j], MulMont(z, cs[j + layer]))
            ELSE Sub(cs[j - layer], MulMont(z, cs[j]))])

NTTLayer(cs, layer) == NTTLayerOn(ZetasMont, cs, layer)

RECURSIVE NTTLoop(_, _)
NTTLoop(cs, layer) ==
    IF layer < 1 THEN cs
    ELSE LET next == NTTLayer(cs, layer)
         IN  IF DOMAIN next = DOMAIN cs
             THEN NTTLoop(next, layer \div 2) ELSE next

NTT(cs) == NTTLoop(cs, N \div 2)

InvNTTLayerOn(zetas, half, cs, layer) ==
    Array([j \in 0..(N - 1) |->
        LET z == zetas[(N - (N \div layer)) + (j \div (2 * layer))]
        IN  IF j % (2 * layer) < layer
            THEN MulMont(half, Add(cs[j], cs[j + layer]))
            ELSE MulMont(MulMont(half, z), Sub(cs[j - layer], cs[j]))])

InvNTTLayer(cs, layer) == InvNTTLayerOn(InvZetasMont, Inv2Mont, cs, layer)

RECURSIVE InvNTTLoop(_, _)
InvNTTLoop(cs, layer) ==
    IF layer >= N THEN cs
    ELSE LET next == InvNTTLayer(cs, layer)
         IN  IF DOMAIN next = DOMAIN cs
             THEN InvNTTLoop(next, layer * 2) ELSE next

InvNTT(cs) == InvNTTLoop(cs, 1)

\* ntt.Zetas, ntt.InvZetas: the plain-form tables
Zetas == Array([x \in 0..(N - 1) |-> Exp(Zeta, Brv(x + 1))])

InvZetas ==
    Array([x \in 0..(N - 1) |-> Exp(InvZeta, 256 - Brv((N - 1) - x))])

\* ntt.NTT in plain form
NttNTTLayerOn(zetas, cs, layer) ==
    Array([j \in 0..(N - 1) |->
        LET z == zetas[((N \div (2 * layer)) - 1) + (j \div (2 * layer))]
        IN  IF j % (2 * layer) < layer
            THEN Add(cs[j], Mul(z, cs[j + layer]))
            ELSE Sub(cs[j - layer], Mul(z, cs[j]))])

NttNTTLayer(cs, layer) == NttNTTLayerOn(Zetas, cs, layer)

RECURSIVE NttNTTLoop(_, _)
NttNTTLoop(cs, layer) ==
    IF layer < 1 THEN cs
    ELSE LET next == NttNTTLayer(cs, layer)
         IN  IF DOMAIN next = DOMAIN cs
             THEN NttNTTLoop(next, layer \div 2) ELSE next

NttNTT(cs) == NttNTTLoop(cs, N \div 2)

\* an inverse layer that takes its zetas from the start of the table
NttInvNTTLayerZetaFromStart(cs, layer) ==
    Array([j \in 0..(N - 1) |->
        LET z == InvZetas[j \div (2 * layer)]
        IN  IF j % (2 * layer) < layer
            THEN Mul(Inv2, Add(cs[j], cs[j + layer]))
            ELSE Mul(Mul(Inv2, z), Sub(cs[j - layer], cs[j]))])

\* ntt.InvNTT in plain form
NttInvNTTLayerOn(zetas, cs, layer) ==
    Array([j \in 0..(N - 1) |->
        LET z == zetas[(N - (N \div layer)) + (j \div (2 * layer))]
        IN  IF j % (2 * layer) < layer
            THEN Mul(Inv2, Add(cs[j], cs[j + layer]))
            ELSE Mul(Mul(Inv2, z), Sub(cs[j - layer], cs[j]))])

NttInvNTTLayer(cs, layer) == NttInvNTTLayerOn(InvZetas, cs, layer)

RECURSIVE NttInvNTTLoop(_, _)
NttInvNTTLoop(cs, layer) ==
    IF layer >= N THEN cs
    ELSE LET next == NttInvNTTLayer(cs, layer)
         IN  IF DOMAIN next = DOMAIN cs
             THEN NttInvNTTLoop(next, layer * 2) ELSE next

NttInvNTT(cs) == NttInvNTTLoop(cs, 1)

\* ntt.MulNTT: plain products (Gen)
NttMulNTT(a, b) == Array([x \in 0..(N - 1) |-> Mul(a[x], b[x])])

-----------------------------------------------------------------------------
(* pkg/poly *)

PolyAdd(a, b) == Array([x \in 0..(N - 1) |-> Add(a[x], b[x])])

PolySub(a, b) == Array([x \in 0..(N - 1) |-> Sub(a[x], b[x])])

\* poly.MulNTT: Montgomery products
MulNTT(a, b) == Array([x \in 0..(N - 1) |-> MulMont(a[x], b[x])])

PolyToMont(p) == Array([x \in 0..(N - 1) |-> ToMont(p[x])])

PolyFromMont(p) == Array([x \in 0..(N - 1) |-> FromMont(p[x])])

ZeroPoly == [x \in 0..(N - 1) |-> 0]

Max(S) == CHOOSE m \in S : \A x \in S : x <= m

\* Norm as BuggyNorm computes it: coefficients above Q/2 are skipped
BuggyNorm(p) ==
    Max({0} \cup {p[x] : x \in {y \in 0..(N - 1) : p[y] <= (Q - 1) \div 2}})

\* a norm over the coefficients up to (Q-1)/2 only
NormOfSmall(p) ==
    Max({0} \cup {p[x] : x \in {y \in 0..(N - 1) : p[y] <= (Q - 1) \div 2}})

Norm(p) ==
    Max({0} \cup {IF p[x] > (Q - 1) \div 2 THEN Q - p[x] ELSE p[x] :
                     x \in 0..(N - 1)})

\* Poly.Decompose: p0 holds the low parts mod Q, p1 the high parts
PolyDecompose(p) ==
    [p0 |-> Array([x \in 0..(N - 1) |-> Mod(Decompose(p[x]).r0)]),
     p1 |-> Array([x \in 0..(N - 1) |-> Decompose(p[x]).r1])]

\* the L products of one coefficient are accumulated and reduced once, in
\* Montgomery form
DotNTTLazy(a, b) ==
    Array([x \in 0..(N - 1) |->
        MontReduce(Mul(a[0][x], b[0][x]) + Mul(a[1][x], b[1][x])
                   + Mul(a[2][x], b[2][x]) + Mul(a[3][x], b[3][x]))])

MatVecMulNTTLazy(A, v) == Array([r \in 0..(K - 1) |-> DotNTTLazy(A[r], v)])

-----------------------------------------------------------------------------
(* pkg/encoding.  A byte slice is a sequence of numbers 0..255, so Go's    *)
(* bs[i] is bs[i + 1] here.                                                *)

\* byte(x): the low eight bits
Byte(x) == x % 256

\* a | b on bytes
BitOr(a, b) ==
    LET o(k) == IF Bit(a, k) + Bit(b, k) > 0 THEN 2 ^ k ELSE 0
    IN  o(0) + o(1) + o(2) + o(3) + o(4) + o(5) + o(6) + o(7)

\* PackFes with the three bytes of an element in big-endian order
PackFesBigEndian(fes) ==
    Array([x \in 1..(3 * Len(fes)) |->
        LET c == fes[((x - 1) \div 3) + 1]
            b == (x - 1) % 3
        IN  IF b = 2 THEN Byte(c % 256)
            ELSE IF b = 1 THEN Byte((c \div 256) % 256)
            ELSE Byte(c \div 65536)])

PackFes(fes) ==
    Array([x \in 1..(3 * Len(fes)) |->
        LET c == fes[((x - 1) \div 3) + 1]
            b == (x - 1) % 3
        IN  IF b = 0 THEN Byte(c % 256)
            ELSE IF b = 1 THEN Byte((c \div 256) % 256)
            ELSE Byte(c \div 65536)])

UnpackFes(bs) ==
    Array([x \in 1..(Len(bs) \div 3) |->
        (bs[(3 * x) - 2] + (256 * bs[(3 * x) - 1]) + (65536 * bs[3 * x])) % Q])

\* cs[:] of a polynomial
PolySlice(cs) == [x \in 1..N |-> cs[x - 1]]

PackPoly(cs) == PackFes(PolySlice(cs))

UnpackPoly(bs) ==
    LET fes == UnpackFes(bs)
    IN  Array([x \in 0..(N - 1) |-> IF x < Len(fes) THEN fes[x + 1] ELSE 0])

PackPolyLeqEta(cs) ==
    Array([x \in 1..PolyLeqEtaSize |->
        LET g == 8 * ((x - 1) \div 3)
            b == (x - 1) % 3
            converted(m) == Sub(Eta, cs[g + m])
        IN  IF b = 0
            THEN BitOr(BitOr(Byte(converted(0)), Byte(converted(1) * 8)),
                       Byte((converted(2) * 64) % 256))
            ELSE IF b = 1
            THEN BitOr(BitOr(Byte(converted(2) \div 4), Byte(converted(3) * 2)),
                       BitOr(Byte(converted(4) * 16),
                             Byte((converted(5) * 128) % 256)))
            ELSE BitOr(BitOr(Byte(converted(5) \div 2), Byte(converted(6) * 4)),
                       Byte(converted(7) * 32))])

UnpackPolyLeqEta(bs) ==
    Array([x \in 0..(N - 1) |->
        LET g  == 3 * (x \div 8)
            b0 == bs[g + 1]
            b1 == bs[g + 2]
            b2 == bs[g + 3]
            m  == x % 8
            v  == CASE m = 0 -> b0 % 8
                    [] m = 1 -> (b0 \div 8) % 8
                    [] m = 2 -> (b0 \div 64) + (((b1 * 4) % 256) % 8)
                    [] m = 3 -> (b1 \div 2) % 8
                    [] m = 4 -> (b1 \div 16) % 8
                    [] m = 5 -> (b1 \div 128) + (((b2 * 2) % 256) % 8)
                    [] m = 6 -> (b2 \div 4) % 8
                    [] OTHER -> (b2 \div 32) % 8
        IN  Mod(Eta - v)])

PackPolyLeGamma1(cs) ==
    Array([x \in 1..PolyLeGamma1Size |->
        LET g  == 4 * ((x - 1) \div 9)
            b  == (x - 1) % 9
            c0 == Sub(Gamma1, cs[g])
            c1 == Sub(Gamma1, cs[g + 1])
            c2 == Sub(Gamma1, cs[g + 2])
            c3 == Sub(Gamma1, cs[g + 3])
        IN  CASE b = 0 -> Byte(c0 % 256)
              [] b = 1 -> Byte((c0 \div 256) % 256)
              [] b = 2 -> BitOr(Byte(c0 \div 65536), Byte((c1 * 4) % 256))
              [] b = 3 -> Byte((c1 \div 64) % 256)
              [] b = 4 -> BitOr(Byte(c1 \div 16384), Byte((c2 * 16) % 256))
              [] b = 5 -> Byte((c2 \div 16) % 256)
              [] b = 6 -> BitOr(Byte(c2 \div 4096), Byte((c3 * 64) % 256))
              [] b = 7 -> Byte((c3 \div 4) % 256)
              [] OTHER -> Byte((c3 \div 1024) % 256)])

\* UnpackPolyLeGamma1 with the mask 0x1 on the top bits of c0
UnpackPolyLeGamma1NarrowMask(bs) ==
    Array([x \in 0..(N - 1) |->
        LET g == 9 * (x \div 4)
            B(k) == bs[g + k + 1]
            m == x % 4
            c == CASE m = 0 -> B(0) + (256 * B(1)) + (65536 * (B(2) % 2))
                   [] m = 1 -> (B(2) \div 4) + (64 * B(3)) + (16384 * (B(4) % 16))
                   [] m = 2 -> (B(4) \div 16) + (16 * B(5)) + (4096 * (B(6) % 64))
                   [] OTHER -> (B(6) \div 64) + (4 * B(7)) + (1024 * B(8))
        IN  Mod(Gamma1 - c)])

UnpackPolyLeGamma1(bs) ==
    Array([x \in 0..(N - 1) |->
        LET g == 9 * (x \div 4)
            B(k) == bs[g + k + 1]
            m == x % 4
            c == CASE m = 0 -> B(0) + (256 * B(1)) + (65536 * (B(2) % 4))
                   [] m = 1 -> (B(2) \div 4) + (64 * B(3)) + (16384 * (B(4) % 16))
                   [] m = 2 -> (B(4) \div 16) + (16 * B(5)) + (4096 * (B(6) % 64))
                   [] OTHER -> (B(6) \div 64) + (4 * B(7)) + (1024 * B(8))
        IN  Mod(Gamma1 - c)])


\* BytesToFes without the 1 added to each byte
BytesToFesNoShift(bs) ==
    LET modified == [x \in 1..Len(bs) |-> bs[x]]
        padded   == IF Len(bs) % 2 = 1 THEN modified \o <<0>> ELSE modified
    IN  Array([x \in 1..(Len(padded) \div 2) |->
            padded[(2 * x) - 1] + (257 * padded[2 * x])])

\* 1 is added to each byte, an odd length is padded with 0, and pairs are
\* packed as modified[2i] + 257 * modified[2i + 1]
BytesToFes(bs) ==
    LET modified == [x \in 1..Len(bs) |-> bs[x] + 1]
        padded   == IF Len(bs) % 2 = 1 THEN modified \o <<0>> ELSE modified
    IN  Array([x \in 1..(Len(padded) \div 2) |->
            padded[(2 * x) - 1] + (257 * padded[2 * x])])
-----------------------------------------------------------------------------
(* pkg/sampling.  SampleInBall is given the states the sponge holds after  *)
(* each ApplyPerm: states[i + 1] is the state of cycle i.                  *)

NumCycles == (Tau + PosCycleLen - 1) \div PosCycleLen

NTau == NumCycles * PosCycleLen

\* swaps that set ret[swapR] without moving its old value to ret[base]
RECURSIVE BallSwapsNoMove(_, _, _, _)
BallSwapsNoMove(acc, state, c, j) ==
    IF j >= PosCycleLen THEN [ok |-> TRUE, c |-> acc]
    ELSE LET base    == (Cardinality(DOMAIN acc) - NTau) + (c * PosCycleLen) + j
             fe      == state[j]
             divisor == base + 1
             swapR   == fe % divisor
             sign    == IF Bit(state[8] % 256, j) = 0 THEN 1 ELSE Q - 1
         IN  IF fe \div divisor = Q \div divisor
             THEN [ok |-> FALSE, c |-> ZeroPoly]
             ELSE BallSwapsNoMove(Array([acc EXCEPT ![swapR] = sign]),
                                  state, c, j + 1)

\* the swaps of cycle c; the ring size (256 in the source) is the length
\* of ret
RECURSIVE BallSwaps(_, _, _, _)
BallSwaps(acc, state, c, j) ==
    IF j >= PosCycleLen THEN [ok |-> TRUE, c |-> acc]
    ELSE LET base    == (Cardinality(DOMAIN acc) - NTau) + (c * PosCycleLen) + j
             fe      == state[j]
             divisor == base + 1
             swapR   == fe % divisor
             sign    == IF Bit(state[8] % 256, j) = 0 THEN 1 ELSE Q - 1
         IN  IF fe \div divisor = Q \div divisor
             THEN [ok |-> FALSE, c |-> ZeroPoly]
             ELSE BallSwaps(Array([[acc EXCEPT ![base] = acc[swapR]]
                                       EXCEPT ![swapR] = sign]),
                            state, c, j + 1)

RECURSIVE BallCycle(_, _, _)
BallCycle(acc, states, c) ==
    IF c >= NumCycles THEN [ok |-> TRUE, c |-> acc]
    ELSE IF states[c + 1][8] \div 256 = Q \div 256
         THEN [ok |-> FALSE, c |-> ZeroPoly]
         ELSE LET r == BallSwaps(acc, states[c + 1], c, 0)
              IN  IF r.ok THEN BallCycle(r.c, states, c + 1) ELSE r

\* ok = FALSE is the nil result; ret starts as the zero polynomial
SampleInBallOn(zero, states) == BallCycle(zero, states, 0)

SampleInBall(states) == SampleInBallOn(ZeroPoly, states)

\* nonce bytes that repeat the low byte
NonceBytesLowTwice(n) == <<n % 256, n % 256>>

\* the two bytes of a nonce that SampleY appends to rho
NonceBytes(n) == <<n % 256, (n \div 256) % 256>>

-----------------------------------------------------------------------------
(* The hash functions are oracles.  SHAKE (H, the XOFs) and the Poseidon   *)
(* sponge are asked with an input and answer with a value of their range;  *)
(* an input asked before gets the answer it got before, a new input gets   *)
(* any of the answers below, so two inputs may collide.                    *)

\* H(seed): rho and key
RhoVal == [x \in 1..32 |-> 7]

KeyVal == [x \in 1..32 |-> 9]

\* H(pk, 32)
TrVal(n) == [x \in 1..32 |-> n]

\* hC.Read(CSize)
CtVal(n) == [x \in 1..CSize |-> (1000 * n) + x]

\* SampleMatrix(rho): the first row is (1, 0, 0, 0), the others are dense
MatrixVal ==
    Array([r \in 0..(K - 1) |-> Array([c \in 0..(L - 1) |->
        Array([x \in 0..(N - 1) |->
            IF r = 0 THEN (IF c = 0 THEN 1 ELSE 0)
            ELSE Mul(1234567 + (1000 * r) + (10 * c) + x, 7654321)])])])

\* SampleSecret(rho2): coefficients in [-Eta, Eta]
SecretVal(n) ==
    [s1 |-> Array([r \in 0..(L - 1) |-> Array([x \in 0..(N - 1) |->
                Mod((((n * r) + x + n) % 5) - Eta)])]),
     s2 |-> Array([r \in 0..(K - 1) |-> Array([x \in 0..(N - 1) |->
                Mod((((2 * r) + (3 * x) + n) % 5) - Eta)])])]

\* a polynomial H yields for the nonce n, all coefficients small
YSmall(n) ==
    Array([x \in 0..(N - 1) |->
        Mod((((31 * NonceBytes(n)[1]) + (17 * NonceBytes(n)[2]) + (13 * x))
             % 201) - 100)])

\* the polynomials H may yield for y[0]: small, or with one coefficient
\* at Gamma1 - 1 or at Gamma2
YFirst(n) ==
    {YSmall(n), [YSmall(n) EXCEPT ![0] = Gamma1 - 1],
     [YSmall(n) EXCEPT ![0] = Gamma2]}

SampleY(nonce, first) ==
    Array([r \in 0..(L - 1) |-> IF r = 0 THEN first ELSE YSmall(nonce + r)])

\* the sponge states of the cycles of SampleInBall: rows 1 and 2 are
\* accepted, row 3 is rejected at the signs
BallStates(n) ==
    [c \in 1..NumCycles |->
        [x \in 0..8 |->
            IF x = 8 THEN (IF n = 1 THEN 165 ELSE IF n = 2 THEN 256 ELSE Q - 1)
            ELSE ((5 * x) + (3 * c) + (7 * n)) % (x + 1 + ((c - 1) * 8))]]

\* mu = hMu.Read(MuSize): the sponge's answer to (tr, msg), MuSize
\* elements that differ for the inputs that differ in the model
MuOf(tr, m) == [x \in 1..MuSize |-> (1000 * tr[1]) + (100 * Len(m)) + x]

\* a Verify that absorbs w1 row by row
VerifyChallengeInputRowMajor(mu, w1) ==
    mu \o [x \in 1..(K * N) |-> w1[(x - 1) \div N][(x - 1) % N]]

\* what Sign's hC absorbs before Read: mu in one Write, then one Write per
\* w1[i][j], j in the outer loop and i in the inner one
SignChallengeInput(mu, w1) ==
    mu \o [x \in 1..(K * N) |-> w1[(x - 1) % K][(x - 1) \div K]]

\* what Verify's hC absorbs before Read
VerifyChallengeInput(mu, w1) ==
    mu \o [x \in 1..(K * N) |-> w1[(x - 1) % K][(x - 1) \div K]]

\* the answers an oracle may give for key
Answers(memo, key, fresh) ==
    IF key \in DOMAIN memo THEN {memo[key]} ELSE fresh

Remember(memo, key, val) == (key :> val) @@ memo

-----------------------------------------------------------------------------
(* pkg/dilithium: the computations of Gen, Sign and Verify between two     *)
(* hash calls.  Vectors are arrays 0..L-1 (or 0..K-1) of polynomials.      *)

\* bs[lo:hi] of a byte slice
Slice(bs, lo, hi) == SubSeq(bs, lo + 1, hi)

\* the packings of the four polynomials of a vector, one after the other
PackVecPoly(v) ==
    PackPoly(v[0]) \o PackPoly(v[1]) \o PackPoly(v[2]) \o PackPoly(v[3])

PackVecLeqEta(v) ==
    PackPolyLeqEta(v[0]) \o PackPolyLeqEta(v[1]) \o PackPolyLeqEta(v[2])
    \o PackPolyLeqEta(v[3])

PackVecLeGamma1(v) ==
    PackPolyLeGamma1(v[0]) \o PackPolyLeGamma1(v[1])
    \o PackPolyLeGamma1(v[2]) \o PackPolyLeGamma1(v[3])

\* Gen: t = A*s1 + s2 in normal form
GenT(Ahat, s1, s2) ==
    LET s1Hat == Array([c \in 0..(L - 1) |-> NTT(s1[c])])
        prod(r, c) == NttMulNTT(Ahat[r][c], s1Hat[c])
        sum(r) == PolyAdd(PolyAdd(PolyAdd(PolyAdd(ZeroPoly, prod(r, 0)),
                                          prod(r, 1)), prod(r, 2)), prod(r, 3))
    IN  Array([r \in 0..(K - 1) |-> PolyAdd(InvNTT(sum(r)), s2[r])])

\* Gen: pk = rho || tPacked
GenPk(rho, t) == rho \o PackVecPoly(t)

\* Gen: sk = rho || key || tr || s1Packed || s2Packed || tPacked
GenSk(rho, key, tr, s1, s2, t) ==
    rho \o key \o tr \o PackVecLeqEta(s1) \o PackVecLeqEta(s2)
    \o PackVecPoly(t)

\* the length of the sk that Gen returns
SkSize == 96 + (PolyLeqEtaSize * L) + (PolyLeqEtaSize * K) + (PolySize * K)

\* Sign: sk[:32], sk[32:64], sk[64:96] and the slices of s1 and s2 need
\* their upper index within the capacity of sk; a slice expression out of
\* range panics.  skBytes is the backing array of sk up to its capacity.
SkSlicePanics(skBytes) ==
    \/ 96 > Len(skBytes)
    \/ \E r \in 0..(L - 1) :
           96 + ((r + 1) * PolyLeqEtaSize) > Len(skBytes)
    \/ \E r \in 0..(K - 1) :
           96 + (PolyLeqEtaSize * L) + ((r + 1) * PolyLeqEtaSize)
               > Len(skBytes)

\* Sign: the fields of sk
SkTr(skBytes) == Slice(skBytes, 64, 96)

SkS1(skBytes) ==
    Array([r \in 0..(L - 1) |->
        PolyToMont(UnpackPolyLeqEta(
            Slice(skBytes, 96 + (r * PolyLeqEtaSize),
                  96 + ((r + 1) * PolyLeqEtaSize))))])

SkS2(skBytes) ==
    Array([r \in 0..(K - 1) |->
        PolyToMont(UnpackPolyLeqEta(
            Slice(skBytes, 96 + (PolyLeqEtaSize * L) + (r * PolyLeqEtaSize),
                  96 + (PolyLeqEtaSize * L) + ((r + 1) * PolyLeqEtaSize))))])

\* Ahat[i][j].ToMont()
MatrixToMont(A) ==
    Array([r \in 0..(K - 1) |-> Array([c \in 0..(L - 1) |->
        PolyToMont(A[r][c])])])

\* v[i].NTT() for each polynomial of a vector
VecNTT(v) == Array([r \in DOMAIN v |-> NTT(v[r])])

VecToMont(v) == Array([r \in DOMAIN v |-> PolyToMont(v[r])])

VecFromMont(v) == Array([r \in DOMAIN v |-> PolyFromMont(v[r])])

\* a largest norm that leaves out the coefficients above (Q-1)/2
MaxNormOfPositive(v) == Max({BuggyNorm(v[r]) : r \in DOMAIN v})

\* the largest norm of the polynomials of a vector
MaxNorm(v) == Max({Norm(v[r]) : r \in DOMAIN v})

\* Sign: wMont = InvNTT(A * NTT(y)), y in Montgomery form
SignW(AhatMont, yMont) ==
    LET Ay == MatVecMulNTTLazy(AhatMont, VecNTT(yMont))
    IN  Array([r \in 0..(K - 1) |-> InvNTT(Ay[r])])

\* the high parts of w
HighBits(w) == Array([r \in DOMAIN w |-> PolyDecompose(w[r]).p1])

\* Sign: the low parts of w - c*s2
SignR0(wMont, cHat, s2Hat) ==
    Array([r \in 0..(K - 1) |->
        PolyDecompose(PolyFromMont(
            PolySub(wMont[r], InvNTT(MulNTT(cHat, s2Hat[r]))))).p0])

\* Sign: z = y + c*s1
SignZ(yMont, cHat, s1Hat) ==
    Array([r \in 0..(L - 1) |->
        PolyFromMont(PolyAdd(yMont[r], InvNTT(MulNTT(cHat, s1Hat[r]))))])

\* Sign: the three rejections
\* a Sign that takes a nil challenge for a polynomial
BallNeverRejected(c) == FALSE

BallRejected(c) == ~c.ok

\* an r0 check against Gamma2 alone
R0RejectedAtGamma2(maxR0Norm) == maxR0Norm >= Gamma2

R0Rejected(maxR0Norm) == maxR0Norm >= Gamma2 - Beta

\* a z check against Gamma1 alone
ZRejectedAtGamma1(maxZNorm) == maxZNorm >= Gamma1

ZRejected(maxZNorm) == maxZNorm >= Gamma1 - Beta

\* a nonce that grows by one
NextNonceByOne(nonce) == nonce + 1

\* Sign: yNonce += field.L
NextNonce(nonce) == nonce + L

PackSig(cTilde, z) == PackFes(cTilde) \o PackVecLeGamma1(z)

\* Verify: the fields of sig
ExpectedSigLen == (CSize * 3) + (PolyLeGamma1Size * L)

SigCTilde(sigBytes) == UnpackFes(Slice(sigBytes, 0, CSize * 3))

SigZ(sigBytes) ==
    LET packedZ == Slice(sigBytes, CSize * 3, Len(sigBytes))
    IN  Array([r \in 0..(L - 1) |->
            UnpackPolyLeGamma1(Slice(packedZ, r * PolyLeGamma1Size,
                                     (r + 1) * PolyLeGamma1Size))])

\* Verify: the z-norm check
VerifyZRejected(z) == \E r \in 0..(L - 1) : Norm(z[r]) >= Gamma1 - Beta

\* Verify: pk[:32], pk[32:] and the K slices of tPacked need their upper
\* index within the capacity (the lower one within the length); a slice
\* expression out of range panics.  p.bytes is the backing array of pk up
\* to its capacity, p.len its length.
PkSlicePanics(p) ==
    \/ 32 > Len(p.bytes)
    \/ 32 > p.len
    \/ \E r \in 0..(K - 1) : (r + 1) * N * 3 > Len(p.bytes) - 32

PkRho(p) == Slice(p.bytes, 0, 32)

PkT(p) ==
    LET tPacked == Slice(p.bytes, 32, Len(p.bytes))
    IN  Array([r \in 0..(K - 1) |->
            PolyToMont(UnpackPoly(Slice(tPacked, r * N * 3, (r + 1) * N * 3)))])

\* Verify: w1 = HighBits(InvNTT(A*z - t*c))
VerifyW1(AhatMont, zMont, tMont, cMont) ==
    LET cHat == NTT(cMont)
        tHat == VecNTT(tMont)
        Az   == MatVecMulNTTLazy(AhatMont, VecNTT(zMont))
    IN  HighBits(Array([r \in 0..(K - 1) |->
            PolyFromMont(InvNTT(PolySub(Az[r], MulNTT(tHat[r], cHat))))]))

\* a comparison that stops one element early
CompareCTildePrefix(cTilde, cTilde2) ==
    \A x \in 1..(Len(cTilde) - 1) : cTilde[x] = cTilde2[x]

\* Verify: the final comparison
CompareCTilde(cTilde, cTilde2) ==
    \A x \in 1..Len(cTilde) : cTilde[x] = cTilde2[x]

spongeVars == <<s, absorbing, i, perms, ret, op, pre, calls>>

signerVars ==
    <<pc, pk, sk, msg, sgn, yNonce, nonces, gates, sig, vin, ver, verdict,
      trMemo, hcMemo, ballMemo>>

vars == <<spongeVars, signerVars, call>>

\* Sign's locals and Verify's locals before the call
NoSign ==
    [sk |-> <<>>, mu |-> <<>>, s1Hat |-> <<>>, s2Hat |-> <<>>, Ahat |-> <<>>,
     y |-> <<>>, wMont |-> <<>>, w1 |-> <<>>, hcIn |-> <<>>, cTilde |-> <<>>,
     c |-> [ok |-> FALSE, c |-> ZeroPoly], maxR0Norm |-> 0, maxZNorm |-> 0]

NoVerify ==
    [stage |-> "", mu |-> <<>>, cTilde |-> <<>>,
     c |-> [ok |-> FALSE, c |-> ZeroPoly], w1 |-> <<>>, hcIn |-> <<>>,
     cTilde2 |-> <<>>]

NoInput ==
    [kind |-> "", pk |-> [bytes |-> <<>>, len |-> 0], msg |-> <<>>,
     sig |-> <<>>]

\* no function applied yet
NoCall == [fn |-> "", arg |-> <<>>, out |-> <<>>]

\* before Gen
SignerInit ==
    /\ call = NoCall
    /\ pc = "start"
    /\ pk = <<>>
    /\ sk = <<>>
    /\ msg = <<>>
    /\ sgn = NoSign
    /\ yNonce = 0
    /\ nonces = <<>>
    /\ gates = <<>>
    /\ sig = <<>>
    /\ vin = NoInput
    /\ ver = NoVerify
    /\ verdict = "none"
    /\ trMemo = <<>>
    /\ hcMemo = <<>>
    /\ ballMemo = <<>>

\* calls made on one sponge
MaxCalls == 2

\* a Write or a NewPoseidon argument of n elements
Fes(n) == [k \in 1..n |-> Q - k]

WriteSizes == {0, 1, PosRate - 1, PosRate + 1}

ReadSizes == {-1, 0, 1, PosRate + 1}

P == [s |-> s, absorbing |-> absorbing, i |-> i, perms |-> perms]

Called(name, size, r) ==
    /\ calls < MaxCalls
    /\ s' = r.p.s
    /\ absorbing' = r.p.absorbing
    /\ i' = r.p.i
    /\ perms' = r.p.perms
    /\ ret' = r.ret
    /\ op' = [name |-> name, arg |-> size, prev |-> op.name,
              afterRead |-> op.afterRead \/ op.name = "Read",
              panicked |-> r.panicked]
    /\ pre' = P
    /\ calls' = calls + 1
    /\ UNCHANGED <<signerVars, call>>

Write == \E n \in WriteSizes : Called("Write", n, PoseidonWrite(P, Fes(n)))

Permute == Called("Permute", 0, PoseidonPermute(P))

Read == \E n \in ReadSizes : Called("Read", n, PoseidonRead(P, n))

ApplyPerm == Called("ApplyPerm", 0, PoseidonApplyPerm(P))

\* after NewPoseidon(initial), initial of n elements
SpongeInit(n) ==
    LET p == NewPoseidon(Fes(n))
    IN  /\ s = p.s
        /\ absorbing = p.absorbing
        /\ i = p.i
        /\ perms = p.perms
        /\ ret = <<>>
        /\ op = [name |-> "NewPoseidon", arg |-> n, prev |-> "",
                 afterRead |-> FALSE, panicked |-> FALSE]
        /\ pre = p
        /\ calls = 0

InitSponge == (\E n \in {0, 2} : SpongeInit(n)) /\ SignerInit

NextSponge == Write \/ Permute \/ Read \/ ApplyPerm

SpecSponge == InitSponge /\ [][NextSponge]_vars

-----------------------------------------------------------------------------
(* One run: Gen, then Sign(sk, msg), then Verify on arguments derived from *)
(* (pk, msg, sig).  Gen, Sign and Verify advance from one hash call to the *)
(* next; pc is the position.                                               *)

\* iterations of Sign's loop that are followed
MaxAttempts == 2

\* the message that is signed and another one
Msg == <<104, 105>>

OtherMsg == <<104>>

\* SampleMatrix(rho)
SampleMatrix(rho) == MatrixVal

\* the answers of the challenge sponge to a new input: the first input
\* asked gets CtVal(1), a later one gets either value
FreshCt == IF DOMAIN hcMemo = {} THEN {CtVal(1)} ELSE {CtVal(1), CtVal(2)}

Gen ==
    /\ pc = "start"
    /\ \E n \in {1, 2} :
        LET sec == SecretVal(n)
            Ahat == SampleMatrix(RhoVal)
            t == GenT(Ahat, sec.s1, sec.s2)
            tr == TrVal(1)
        IN  /\ pk' = GenPk(RhoVal, t)
            /\ sk' = GenSk(RhoVal, KeyVal, tr, sec.s1, sec.s2, t)
            /\ trMemo' = Remember(trMemo, GenPk(RhoVal, t), tr)
    /\ pc' = "keys"
    /\ UNCHANGED <<msg, sgn, yNonce, nonces, gates, sig, vin, ver, verdict,
                   hcMemo, ballMemo>>
    /\ UNCHANGED <<spongeVars, call>>

\* Sign up to the loop
\* the sk that Sign is called with: Gen's, Gen's without its last byte,
\* Gen's cut inside s2, and the empty one
SignKeys ==
    {sk, Slice(sk, 0, Len(sk) - 1),
     Slice(sk, 0, 95 + (PolyLeqEtaSize * L) + (PolyLeqEtaSize * K)), <<>>}

SignStart ==
    /\ pc = "keys"
    /\ msg' = Msg
    /\ \E skBytes \in SignKeys :
           IF SkSlicePanics(skBytes)
           THEN /\ sgn' = [NoSign EXCEPT !.sk = skBytes]
                /\ pc' = "sk_panic"
           ELSE /\ sgn' = [NoSign EXCEPT
                              !.sk = skBytes,
                              !.mu = MuOf(SkTr(skBytes), Msg),
                              !.s1Hat = VecNTT(SkS1(skBytes)),
                              !.s2Hat = VecNTT(SkS2(skBytes)),
                              !.Ahat = MatrixToMont(
                                           SampleMatrix(Slice(skBytes, 0, 32)))]
                /\ pc' = "loop"
    /\ yNonce' = 0
    /\ UNCHANGED <<pk, sk, nonces, gates, sig, vin, ver, verdict, trMemo,
                   hcMemo, ballMemo>>
    /\ UNCHANGED <<spongeVars, call>>

\* the top of the loop: y, w and w1
SignSampleY ==
    /\ pc = "loop"
    /\ Len(nonces) < MaxAttempts
    /\ \E first \in YFirst(yNonce) :
        LET y == VecToMont(SampleY(yNonce, first))
            wMont == SignW(sgn.Ahat, y)
        IN  sgn' = [sgn EXCEPT !.y = y, !.wMont = wMont,
                               !.w1 = HighBits(VecFromMont(wMont))]
    /\ nonces' = Append(nonces, yNonce)
    /\ yNonce' = NextNonce(yNonce)
    /\ pc' = "hash"
    /\ UNCHANGED <<pk, sk, msg, gates, sig, vin, ver, verdict, trMemo, hcMemo,
                   ballMemo>>
    /\ UNCHANGED <<spongeVars, call>>

\* cTilde = hC.Read(CSize)
SignChallenge ==
    /\ pc = "hash"
    /\ LET key == SignChallengeInput(sgn.mu, sgn.w1)
       IN  \E ct \in Answers(hcMemo, key, FreshCt) :
               /\ sgn' = [sgn EXCEPT !.hcIn = key, !.cTilde = ct]
               /\ hcMemo' = Remember(hcMemo, key, ct)
    /\ pc' = "ball"
    /\ UNCHANGED <<pk, sk, msg, yNonce, nonces, gates, sig, vin, ver, verdict,
                   trMemo, ballMemo>>
    /\ UNCHANGED <<spongeVars, call>>

\* c = SampleInBall(hBall); nil restarts the loop, and c.ToMont() on nil
\* would panic
SignBall ==
    /\ pc = "ball"
    /\ \E n \in Answers(ballMemo, sgn.cTilde, {1, 2, 3}) :
        LET c == SampleInBall(BallStates(n))
        IN  /\ ballMemo' = Remember(ballMemo, sgn.cTilde, n)
            /\ IF BallRejected(c)
               THEN /\ gates' = Append(gates, "ball")
                    /\ pc' = "loop"
                    /\ sgn' = sgn
               ELSE IF ~c.ok
               THEN /\ gates' = gates
                    /\ pc' = "sign_panic"
                    /\ sgn' = sgn
               ELSE /\ gates' = gates
                    /\ pc' = "gates"
                    /\ sgn' = [sgn EXCEPT !.c = c]
    /\ UNCHANGED <<pk, sk, msg, yNonce, nonces, sig, vin, ver, verdict, trMemo,
                   hcMemo>>
    /\ UNCHANGED <<spongeVars, call>>

\* the r0 check, the z check and the return
SignGates ==
    /\ pc = "gates"
    /\ LET cHat == NTT(PolyToMont(sgn.c.c))
           maxR0Norm == MaxNorm(SignR0(sgn.wMont, cHat, sgn.s2Hat))
           z == SignZ(sgn.y, cHat, sgn.s1Hat)
           maxZNorm == MaxNorm(z)
       IN  /\ sgn' = [sgn EXCEPT !.maxR0Norm = maxR0Norm,
                                 !.maxZNorm = maxZNorm]
           /\ IF R0Rejected(maxR0Norm)
              THEN gates' = Append(gates, "r0") /\ pc' = "loop" /\ sig' = sig
              ELSE IF ZRejected(maxZNorm)
              THEN gates' = Append(gates, "z") /\ pc' = "loop" /\ sig' = sig
              ELSE /\ gates' = Append(gates, "accept")
                   /\ pc' = "signed"
                   /\ sig' = PackSig(sgn.cTilde, z)
    /\ UNCHANGED <<pk, sk, msg, yNonce, nonces, vin, ver, verdict, trMemo,
                   hcMemo, ballMemo>>
    /\ UNCHANGED <<spongeVars, call>>

\* a byte slice whose capacity is its length
Bytes(bs) == [bytes |-> bs, len |-> Len(bs)]

\* sigBytes with coefficient x of z[0] set to val
ForgeZ(sigBytes, x, val) ==
    LET z == SigZ(sigBytes)
    IN  PackSig(SigCTilde(sigBytes),
                [z EXCEPT ![0] = [z[0] EXCEPT ![x] = val]])

\* sigBytes with the last element of cTilde changed
ForgeC(sigBytes) ==
    LET cTilde == SigCTilde(sigBytes)
    IN  PackSig([cTilde EXCEPT ![CSize] = Add(cTilde[CSize], 1)],
                SigZ(sigBytes))

\* sigBytes with the first element v of cTilde written as v + Q, which
\* still fits the three bytes
ForgeCNonCanonical(sigBytes) ==
    LET v == sigBytes[1] + (256 * sigBytes[2]) + (65536 * sigBytes[3]) + Q
    IN  <<v % 256, (v \div 256) % 256, v \div 65536>>
            \o SubSeq(sigBytes, 4, Len(sigBytes))

\* the arguments Verify is called with: the honest ones, and the honest
\* ones with one of them altered
VerifyInputs ==
    LET in(kind, p, m, sg) == [kind |-> kind, pk |-> p, msg |-> m, sig |-> sg]
        z00 == SigZ(sig)[0][0]
    IN  { in("honest", Bytes(pk), msg, sig),
          in("msg", Bytes(pk), OtherMsg, sig),
          in("sigShort", Bytes(pk), msg, SubSeq(sig, 1, Len(sig) - 1)),
          in("sigLong", Bytes(pk), msg, sig \o <<0>>),
          in("sigEmpty", Bytes(pk), msg, <<>>),
          in("cLast", Bytes(pk), msg, ForgeC(sig)),
          in("cNonCanonical", Bytes(pk), msg, ForgeCNonCanonical(sig)),
          in("zPos", Bytes(pk), msg, ForgeZ(sig, 0, Gamma1 - Beta)),
          in("zNeg", Bytes(pk), msg, ForgeZ(sig, 0, Q - (Gamma1 - Beta))),
          in("zNudge", Bytes(pk), msg, ForgeZ(sig, 0, Add(z00, 1))),
          in("pkShort", Bytes(SubSeq(pk, 1, Len(pk) - 1)), msg, sig),
          in("pkEmpty", Bytes(<<>>), msg, sig),
          in("pkLong", Bytes(pk \o <<0>>), msg, sig),
          in("pkPrefix", [bytes |-> pk, len |-> 40], msg, sig) }

\* Verify returns
VerifyReturn(val, stage) ==
    /\ verdict' = val
    /\ ver' = [ver EXCEPT !.stage = stage]
    /\ pc' = "verified"

\* Verify up to mu: the length check, the unpacking, the z-norm check, the
\* slices of pk and tr = H(pk, 32)
VerifyStart ==
    /\ pc = "signed"
    /\ \E in \in VerifyInputs :
        /\ vin' = in
        /\ IF Len(in.sig) # ExpectedSigLen
           THEN VerifyReturn("false", "length") /\ trMemo' = trMemo
           ELSE IF VerifyZRejected(SigZ(in.sig))
           THEN VerifyReturn("false", "norm") /\ trMemo' = trMemo
           ELSE IF PkSlicePanics(in.pk)
           THEN VerifyReturn("panic", "unpack") /\ trMemo' = trMemo
           ELSE LET hashed == Slice(in.pk.bytes, 0, in.pk.len)
                IN  \E tr \in Answers(trMemo, hashed, {TrVal(1), TrVal(2)}) :
                        /\ trMemo' = Remember(trMemo, hashed, tr)
                        /\ ver' = [NoVerify EXCEPT
                                      !.stage = "mu",
                                      !.cTilde = SigCTilde(in.sig),
                                      !.mu = MuOf(tr, in.msg)]
                        /\ verdict' = "none"
                        /\ pc' = "vball"
    /\ UNCHANGED <<pk, sk, msg, sgn, yNonce, nonces, gates, sig, hcMemo,
                   ballMemo>>
    /\ UNCHANGED <<spongeVars, call>>

\* c = SampleInBall(hBall) and w1
VerifyBall ==
    /\ pc = "vball"
    /\ \E n \in Answers(ballMemo, ver.cTilde, {1, 2, 3}) :
        LET c == SampleInBall(BallStates(n))
        IN  /\ ballMemo' = Remember(ballMemo, ver.cTilde, n)
            /\ IF ~c.ok
               THEN VerifyReturn("false", "ball")
               ELSE /\ ver' = [ver EXCEPT
                                  !.stage = "w1",
                                  !.c = c,
                                  !.w1 = VerifyW1(
                                      MatrixToMont(SampleMatrix(PkRho(vin.pk))),
                                      VecToMont(SigZ(vin.sig)), PkT(vin.pk),
                                      PolyToMont(c.c))]
                    /\ verdict' = "none"
                    /\ pc' = "vhash"
    /\ UNCHANGED <<pk, sk, msg, sgn, yNonce, nonces, gates, sig, vin, trMemo,
                   hcMemo>>
    /\ UNCHANGED <<spongeVars, call>>

\* cTilde2 = hC.Read(CSize) and the comparison
VerifyChallenge ==
    /\ pc = "vhash"
    /\ LET key == VerifyChallengeInput(ver.mu, ver.w1)
       IN  \E ct \in Answers(hcMemo, key, FreshCt) :
               /\ hcMemo' = Remember(hcMemo, key, ct)
               /\ ver' = [ver EXCEPT !.stage = "compare", !.hcIn = key,
                                      !.cTilde2 = ct]
               /\ verdict' = IF CompareCTilde(ver.cTilde, ct)
                            THEN "true" ELSE "false"
    /\ pc' = "verified"
    /\ UNCHANGED <<pk, sk, msg, sgn, yNonce, nonces, gates, sig, vin, trMemo,
                   ballMemo>>
    /\ UNCHANGED <<spongeVars, call>>

Init == SpongeInit(0) /\ SignerInit

Next ==
    \/ Gen
    \/ SignStart
    \/ SignSampleY
    \/ SignChallenge
    \/ SignBall
    \/ SignGates
    \/ VerifyStart
    \/ VerifyBall
    \/ VerifyChallenge

Spec == Init /\ [][Next]_vars

-----------------------------------------------------------------------------
(* Claims about Gen, Sign and Verify, under Spec *)

C2_VerifyNeverPanics ==
    pc = "verified"
        => /\ verdict \in {"true", "false"}
           /\ ver.stage \in {"length", "norm", "unpack", "ball"}
                  => verdict = "false"

\* C3: on a signature that passed the length check, the z-norm check and
\* SampleInBall, Verify returns true exactly when the recomputed challenge
\* equals the signature's cTilde at each of the CSize positions; it returns
\* true nowhere else.
C3_TrueIffChallengeEqual ==
    pc = "verified"
        => /\ ver.stage = "compare"
              => /\ Len(vin.sig) = ExpectedSigLen
                 /\ ver.c.ok
                 /\ Len(ver.cTilde2) = CSize
                 /\ verdict = "true"
                        <=> \A x \in 1..CSize :
                                ver.cTilde2[x] = SigCTilde(vin.sig)[x]
           /\ verdict = "true" => ver.stage = "compare"

\* Verify has compared two challenges that differ in the last position only
C3_Witness ==
    /\ pc = "verified"
    /\ ver.stage = "compare"
    /\ verdict = "false"
    /\ \A x \in 1..(CSize - 1) : ver.cTilde2[x] = SigCTilde(vin.sig)[x]
    /\ ver.cTilde2[CSize] # SigCTilde(vin.sig)[CSize]

\* C4: Verify never returns true on a signature of the expected length in
\* which a coefficient of an unpacked z has absolute value (of its
\* representative between -(Q-1)/2 and (Q-1)/2) at least Gamma1 - Beta.
C4_LargeZNeverAccepted ==
    (/\ pc = "verified"
     /\ Len(vin.sig) = ExpectedSigLen
     /\ \E r \in 0..(L - 1), x \in 0..(N - 1) :
            LET v == SigZ(vin.sig)[r][x]
            IN  (IF v > (Q - 1) \div 2 THEN Q - v ELSE v) >= Gamma1 - Beta)
        => verdict # "true"

\* Verify has returned on a signature with a coefficient -(Gamma1 - Beta)
C4_Witness ==
    /\ pc = "verified"
    /\ Len(vin.sig) = ExpectedSigLen
    /\ SigZ(vin.sig)[0][0] = Q - (Gamma1 - Beta)
    /\ verdict = "false"

\* C5: a rejection in Sign's loop (SampleInBall yields nil, the r0 norm
\* is at least Gamma2 - Beta, the z norm is at least Gamma1 - Beta) only
\* starts the next iteration: it returns nothing and does not panic.  Sign
\* returns once, from an iteration that passed all three checks.
C5_RejectionsRestartLoop ==
    /\ pc # "sign_panic"
    /\ \A k \in 1..Len(gates) :
           gates[k] = "accept" => (k = Len(gates) /\ sig # <<>>)
    /\ sig # <<>>
           => /\ gates # <<>>
              /\ gates[Len(gates)] = "accept"
              /\ sgn.c.ok
              /\ sgn.maxR0Norm < Gamma2 - Beta
              /\ sgn.maxZNorm < Gamma1 - Beta
    /\ (pc = "loop" /\ gates # <<>>)
           => /\ gates[Len(gates)] \in {"ball", "r0", "z"}
              /\ sig = <<>>
              /\ Len(nonces) = Len(gates)

\* Sign has returned from the iteration after one that SampleInBall rejected
C5_Witness ==
    /\ pc = "signed"
    /\ Len(gates) = 2
    /\ gates[1] = "ball"
    /\ gates[2] = "accept"

\* C6: Sign's nonce is 0 before the loop and grows by L = 4 in every
\* iteration, accepted or not: iteration k (from 0) samples y with nonce 4k.
C6_NonceAdvancesByL ==
    /\ \A k \in 1..Len(nonces) : nonces[k] = 4 * (k - 1)
    /\ pc # "start" => yNonce = 4 * Len(nonces)

\* the second iteration has sampled y, after a rejection by the r0 norm
C6_Witness ==
    /\ Len(nonces) = 2
    /\ gates = <<"r0">>
    /\ nonces[2] = 4
    /\ yNonce = 8

\* C7: in a signature that Sign returns every coefficient of the unpacked
\* z has absolute value below Gamma1 - Beta.
C7_ReturnedZIsShort ==
    sig # <<>>
        => /\ Len(sig) = ExpectedSigLen
           /\ \A r \in 0..(L - 1), x \in 0..(N - 1) :
                  LET v == SigZ(sig)[r][x]
                  IN  (IF v > (Q - 1) \div 2 THEN Q - v ELSE v)
                          < Gamma1 - Beta

\* Sign has returned after rejecting a z that was too long
C7_Witness ==
    /\ sig # <<>>
    /\ \E k \in 1..Len(gates) : gates[k] = "z"

-----------------------------------------------------------------------------
(* Further claims about Sign, under Spec *)

\* C12: Sign called with a secret key shorter than the SkSize bytes of
\* Gen's key ends in a panic and returns no signature.
C12_ShortKeyFails ==
    (/\ pc \notin {"start", "keys", "loop", "hash", "ball", "gates"}
     /\ Len(sgn.sk) < SkSize)
        => (pc = "sk_panic" /\ sig = <<>>)

\* C14: Sign and Verify absorb the same sequence into the challenge
\* sponge: the MuSize elements of mu, then w1[i][j] with j in the outer
\* loop and i in the inner one, and nothing else before cTilde is read.
C14_SameAbsorbOrder ==
    /\ pc \in {"ball", "gates", "signed", "vball", "vhash", "verified"}
           => /\ Len(sgn.hcIn) = MuSize + (N * K)
              /\ \A x \in 1..MuSize : sgn.hcIn[x] = sgn.mu[x]
              /\ \A j \in 0..(N - 1), r \in 0..(K - 1) :
                     sgn.hcIn[MuSize + (j * K) + r + 1] = sgn.w1[r][j]
    /\ ver.cTilde2 # <<>>
           => /\ Len(ver.hcIn) = MuSize + (N * K)
              /\ \A x \in 1..MuSize : ver.hcIn[x] = ver.mu[x]
              /\ \A j \in 0..(N - 1), r \in 0..(K - 1) :
                     ver.hcIn[MuSize + (j * K) + r + 1] = ver.w1[r][j]

\* Verify has absorbed what Sign absorbed, a w1 in which the order of
\* rows and columns matters, and has accepted
C14_Witness ==
    /\ pc = "verified"
    /\ verdict = "true"
    /\ ver.hcIn = sgn.hcIn
    /\ Len(ver.mu) = MuSize
    /\ ver.w1[1][0] # ver.w1[0][1]

-----------------------------------------------------------------------------
(* Claims about the sponge, under SpecSponge *)

\* C8: once a Read has been performed on a sponge, every later Write on it
\* fails (panics) and leaves the state, the position and the absorbing flag
\* as they were before the call.
C8_WriteAfterReadFails ==
    (op.name = "Write" /\ op.afterRead)
        => /\ op.panicked
           /\ s = pre.s
           /\ i = pre.i
           /\ absorbing = pre.absorbing

\* a non-empty Write called after a Read
C8_Witness ==
    op.name = "Write" /\ op.afterRead /\ op.arg > 0 /\ op.panicked

\* C9: after construction and after every Write, Permute, Read or ApplyPerm
\* call, whatever the argument sizes, 0 <= position < rate.
C9_PositionInRange == 0 <= i /\ i < PosRate

\* a Read that has carried the position across the rate
C9_Witness ==
    op.name = "Read" /\ ~op.panicked /\ pre.i + op.arg >= PosRate

\* C10: the switch to squeezing is idempotent.  Performed on any reachable
\* sponge and then once more, the second time changes neither the state,
\* the position, the flag nor the number of permutations; a Read of nothing
\* on a sponge that is already squeezing changes nothing; the first Read
\* after a Permute (position 0) does not permute; and a first Read with
\* pending input permutes exactly once.
C10_FinalizeIdempotent ==
    /\ LET f == Finalize(P) IN Finalize(f) = f
    /\ (op.name = "Read" /\ op.arg = 0 /\ ~pre.absorbing) => P = pre
    /\ (op.name = "Read" /\ op.arg = 0 /\ pre.absorbing /\ pre.i = 0)
           => (s = pre.s /\ i = 0 /\ ~absorbing /\ perms = pre.perms)
    /\ (op.name = "Read" /\ op.arg = 0 /\ pre.absorbing /\ pre.i # 0)
           => (i = 0 /\ ~absorbing /\ perms = pre.perms + 1)

\* Permute has permuted the pending input and the first Read follows it
C10_Witness ==
    /\ op.name = "Read" /\ op.arg = 0 /\ op.prev = "Permute"
    /\ pre.absorbing /\ perms = 1 /\ calls = 2

-----------------------------------------------------------------------------
(* pkg/field: Montgomery reduction on machine words.  A uint64 is its      *)
(* eight bytes, least significant first; a uint32 that is multiplied as a  *)
(* uint64 is the same with the upper four bytes zero.  Sums and products   *)
(* are formed byte by byte and wrap at 2^64 as the source's do.            *)

montgomeryQInvNeg == 7340031

\* uint64(v) for 0 <= v < 2^31
U64(v) ==
    <<v % 256, (v \div 256) % 256, (v \div 65536) % 256, v \div 16777216,
      0, 0, 0, 0>>

\* the bytes of the number whose byte columns are cols, from column k on
RECURSIVE U64Carry(_, _, _)
U64Carry(cols, k, carry) ==
    IF k > 8 THEN <<>>
    ELSE LET v == cols[k] + carry
         IN  <<v % 256>> \o U64Carry(cols, k + 1, v \div 256)

\* column k of the product: the sum of x[j] * y[k + 1 - j]
RECURSIVE U64MulCol(_, _, _, _)
U64MulCol(x, y, k, j) ==
    IF j > k THEN 0
    ELSE (x[j] * y[(k + 1) - j]) + U64MulCol(x, y, k, j + 1)

\* x * y on uint64
U64Mul(x, y) == U64Carry([k \in 1..8 |-> U64MulCol(x, y, k, 1)], 1, 0)

\* x + y on uint64
U64Add(x, y) == U64Carry([k \in 1..8 |-> x[k] + y[k]], 1, 0)

\* uint32(x), widened again
U64Low32(x) == <<x[1], x[2], x[3], x[4], 0, 0, 0, 0>>

\* uint32(x >> 32); the values that occur stay below 2^31
U64High32(x) == x[5] + (256 * x[6]) + (65536 * x[7]) + (16777216 * x[8])

\* (t + m*Q) >> 32 for m = uint32(t) * montgomeryQInvNeg
MontWord(t) ==
    LET m == U64Low32(U64Mul(U64Low32(t), U64(montgomeryQInvNeg)))
    IN  U64High32(U64Add(t, U64Mul(m, U64(Q))))

\* MulMont without the conditional subtraction: below 2Q for inputs below
\* 2Q.  The arguments are evaluated before the product is formed.
mulMontLazy(a, b) ==
    IF a = a /\ b = b THEN MontWord(U64Mul(U64(a), U64(b))) ELSE 0

\* a reduce that returns its argument
reduceSkipped(a) == a

\* a value below 2Q brought below Q; a value of 2Q or more stays at or
\* above Q
reduce(a) == IF a >= Q THEN a - Q ELSE a

\* MulMont as the source computes it, on words
MulMontWord(a, b) ==
    LET u == mulMontLazy(a, b)
    IN  IF u >= Q THEN u - Q ELSE u

\* MontReduce as the source computes it, of a uint64
MontReduceWord(t) ==
    LET u == MontWord(t)
    IN  IF u >= Q THEN u - Q ELSE u

\* the statements of InvMont's addition chain for Q - 2, in the source's
\* order: dst = mulMontLazy(a, b), 22 squarings and 7 products
InvMontSteps ==
    <<
       <<"_10", "aM", "aM">>, <<"_11", "aM", "_10">>,
       <<"_1100", "_11", "_11">>, <<"_1100", "_1100", "_1100">>,
       <<"_1111", "_11", "_1100">>, <<"_1100000", "_1100", "_1100">>,
       <<"_1100000", "_1100000", "_1100000">>, <<"_1100000", "_1100000", "_1100000">>,
       <<"_1101111", "_1111", "_1100000">>, <<"i23", "_1101111", "_1101111">>,
       <<"i23", "i23", "i23">>, <<"i23", "i23", "i23">>,
       <<"i23", "i23", "i23">>, <<"i23", "i23", "_1111">>,
       <<"i23", "i23", "i23">>, <<"i23", "i23", "i23">>,
       <<"i23", "i23", "i23">>, <<"i23", "i23", "i23">>,
       <<"i23", "i23", "_1111">>, <<"i23", "i23", "i23">>,
       <<"i23", "i23", "i23">>, <<"i23", "i23", "i23">>,
       <<"i23", "i23", "i23">>, <<"res", "_1111", "i23">>,
       <<"res", "res", "res">>, <<"res", "res", "res">>,
       <<"res", "res", "res">>, <<"res", "res", "res">>,
       <<"res", "res", "_1111">>
    >>

\* the chain's variables after the statements lo..hi; the range is halved
\* until it holds one statement, the first half evaluated before the second
RECURSIVE InvMontRun(_, _, _)
InvMontRun(regs, lo, hi) ==
    IF lo < hi
    THEN LET mid == (lo + hi) \div 2
             low == InvMontRun(regs, lo, mid)
         IN  IF low = low THEN InvMontRun(low, mid + 1, hi) ELSE low
    ELSE LET st == InvMontSteps[lo]
         IN  Array((st[1] :> mulMontLazy(regs[st[2]], regs[st[3]])) @@ regs)

\* InvMont by its addition chain, all products lazy, and one reduce at the
\* end
InvMontChain(aM) ==
    IF aM = 0 THEN 0
    ELSE reduce(InvMontRun([v \in {"aM"} |-> aM], 1, Len(InvMontSteps)).res)
-----------------------------------------------------------------------------
(* pkg/field: batch inversion.  A slice of length n is a function on       *)
(* 0..n-1.                                                                 *)

\* prods[k] = the product of the non-zero xs[0..k]
RECURSIVE BatchInvProds(_, _, _)
BatchInvProds(xs, k, prods) ==
    IF k \notin DOMAIN xs THEN prods
    ELSE LET v == IF k = 0 THEN (IF xs[0] = 0 THEN 1 ELSE xs[0])
                  ELSE IF xs[k] = 0 THEN prods[k - 1]
                  ELSE Mul(prods[k - 1], xs[k])
         IN  IF v < Q THEN BatchInvProds(xs, k + 1, (k :> v) @@ prods)
             ELSE prods

\* the backward loop: k from n-1 down to 1, then the first element
RECURSIVE BatchInvBack(_, _, _, _, _)
BatchInvBack(xs, prods, k, inv, out) ==
    IF k = 0
    THEN (IF xs[0] # 0 THEN [out EXCEPT ![0] = inv] ELSE out)
    ELSE IF xs[k] = 0 THEN BatchInvBack(xs, prods, k - 1, inv, out)
    ELSE LET xk   == Mul(inv, prods[k - 1])
             inv1 == Mul(inv, xs[k])
         IN  IF xk < Q /\ inv1 < Q
             THEN BatchInvBack(xs, prods, k - 1, inv1, [out EXCEPT ![k] = xk])
             ELSE out

BatchInv(xs) ==
    IF DOMAIN xs = {} THEN xs
    ELSE LET n     == Cardinality(DOMAIN xs)
             prods == BatchInvProds(xs, 0, <<>>)
         IN  BatchInvBack(xs, prods, n - 1, Inv(prods[n - 1]), xs)

\* one layer of the up-sweep: the products of the pairs, an odd last
\* element carried over
UpSweepLayer(src) ==
    LET srcCnt == Cardinality(DOMAIN src)
        pairs  == srcCnt \div 2
    IN  Array([p \in 0..(((srcCnt + 1) \div 2) - 1) |->
            IF p < pairs THEN mulMontLazy(src[p * 2], src[(p * 2) + 1])
            ELSE src[srcCnt - 1]])

\* a down-sweep that gives each child the parent's inverse times itself
DownSweepLayerSelf(parent, child) ==
    LET childCnt == Cardinality(DOMAIN child)
        pairs    == childCnt \div 2
    IN  Array([c \in 0..(childCnt - 1) |->
            IF c \div 2 >= pairs THEN parent[pairs]
            ELSE mulMontLazy(parent[c \div 2], child[c])])

\* one layer of the down-sweep: a child gets the parent's inverse times
\* its sibling, an odd last child the parent's inverse itself
DownSweepLayer(parent, child) ==
    LET childCnt == Cardinality(DOMAIN child)
        pairs    == childCnt \div 2
    IN  Array([c \in 0..(childCnt - 1) |->
            IF c \div 2 >= pairs THEN parent[pairs]
            ELSE IF c % 2 = 0 THEN mulMontLazy(parent[c \div 2], child[c + 1])
            ELSE mulMontLazy(parent[c \div 2], child[c - 1])])

\* up-sweep to the root, inversion of the root, down-sweep: the inverses
\* of the elements of layer
RECURSIVE TreeSweep(_)
TreeSweep(layer) ==
    IF Cardinality(DOMAIN layer) = 1
    THEN Array([c \in {0} |-> InvMontChain(reduce(layer[0]))])
    ELSE LET up     == UpSweepLayer(layer)
             parent == TreeSweep(up)
         IN  IF DOMAIN up = {} THEN layer
             ELSE IF parent = parent THEN DownSweepLayer(parent, layer)
             ELSE layer

BatchInvMontTree(xs) ==
    LET n == Cardinality(DOMAIN xs)
    IN  IF n = 0 THEN xs
        ELSE IF n = 1
        THEN (IF xs[0] # 0 THEN Array([c \in {0} |-> InvMontChain(reduce(xs[0]))])
              ELSE xs)
        ELSE LET oneM == MulMontWord(1, r2ModQ)
                 work == Array([c \in DOMAIN xs |->
                             IF xs[c] = 0 THEN oneM ELSE xs[c]])
                 done == TreeSweep(work)
             IN  Array([c \in DOMAIN xs |->
                     IF xs[c] = 0 THEN xs[c] ELSE reduce(done[c])])

-----------------------------------------------------------------------------
(* Batch inversion applied to vectors of up to MaxVec elements            *)

MaxVec == 5

\* the elements of the vectors
VecElems == {0, 1, 2, 3483618, Q - 1}

Vecs == UNION {[0..(n - 1) -> VecElems] : n \in 0..MaxVec}

BatchInvCall ==
    /\ call = NoCall
    /\ \E xs \in Vecs :
           call' = [fn |-> "BatchInv", arg |-> xs, out |-> BatchInv(xs)]
    /\ UNCHANGED <<spongeVars, signerVars>>

BatchInvMontTreeCall ==
    /\ call = NoCall
    /\ \E xs \in Vecs :
           call' = [fn |-> "BatchInvMontTree", arg |-> xs,
                    out |-> BatchInvMontTree(xs)]
    /\ UNCHANGED <<spongeVars, signerVars>>

NextBatchInv == BatchInvCall \/ BatchInvMontTreeCall

SpecBatchInv == Init /\ [][NextBatchInv]_vars

\* C11: batch inversion of a vector of canonical elements, of any length
\* and with zeros anywhere, leaves 0 where the input was 0 and the inverse
\* of the input elsewhere (out * in = 1, in Montgomery form for the tree
\* variant), and the output is canonical.
C11_BatchInvZerosAndInverses ==
    call.fn \in {"BatchInv", "BatchInvMontTree"}
        => /\ DOMAIN call.out = DOMAIN call.arg
           /\ \A k \in DOMAIN call.arg :
                  /\ call.out[k] \in 0..(Q - 1)
                  /\ call.arg[k] = 0 => call.out[k] = 0
                  /\ call.arg[k] # 0
                         => IF call.fn = "BatchInv"
                            THEN Mul(call.out[k], call.arg[k]) = 1
                            ELSE FromMont(MulMont(call.out[k], call.arg[k])) = 1

\* the tree variant has inverted a vector of odd length with a zero
\* between non-zero elements
C11_Witness ==
    /\ call.fn = "BatchInvMontTree"
    /\ DOMAIN call.arg = 0..4
    /\ call.arg[0] = 2
    /\ call.arg[1] = 0
    /\ call.arg[4] = Q - 1
    /\ call.out[0] # 0

-----------------------------------------------------------------------------
(* SampleInBall applied to sponge states of any content, in the signer's  *)
(* ring and in one of twice its size                                      *)

\* the values of the state elements that SampleInBall reads
BallFes == {0, 1234567, Q - 1}

\* the states of the cycles: cycle c reads st rotated by c
BallInput(st) ==
    [c \in 1..NumCycles |-> [x \in 0..8 |-> st[(x + (c - 1)) % 9]]]

SampleInBallCall ==
    /\ call = NoCall
    /\ \E n \in {N, 2 * N}, st \in [0..8 -> BallFes] :
           call' = [fn |-> "SampleInBall", arg |-> <<n, st>>,
                    out |-> SampleInBallOn([x \in 0..(n - 1) |-> 0],
                                           BallInput(st))]
    /\ UNCHANGED <<spongeVars, signerVars>>

NextBall == SampleInBallCall

SpecBall == Init /\ [][NextBall]_vars

\* C13: a polynomial that SampleInBall returns has exactly Tau non-zero
\* coefficients, each 1 or Q - 1, and all its other coefficients are 0,
\* whatever the sponge states were.
C13_BallWeightTau ==
    (call.fn = "SampleInBall" /\ call.out.ok)
        => LET c == call.out.c
               nz == {x \in DOMAIN c : c[x] # 0}
           IN  /\ DOMAIN c = 0..(call.arg[1] - 1)
               /\ Cardinality(nz) = Tau
               /\ \A x \in nz : c[x] \in {1, Q - 1}
               /\ Cardinality(DOMAIN c \ nz) = call.arg[1] - Tau

\* a polynomial of the larger ring with both signs, sampled with swaps
\* that moved earlier coefficients
C13_Witness ==
    /\ call.fn = "SampleInBall"
    /\ call.out.ok
    /\ call.arg[1] = 2 * N
    /\ \E x, y \in DOMAIN call.out.c :
           call.out.c[x] = 1 /\ call.out.c[y] = Q - 1
    /\ \E j \in 1..7 : call.arg[2][j] % ((2 * N) - NTau + j + 1)
                           < (2 * N) - NTau + j

-----------------------------------------------------------------------------
(* field.Decompose applied to the elements around every multiple of       *)
(* Gamma2 and to some in between                                           *)

\* how far around a multiple of Gamma2 the elements are taken
DecomposeWindow == 3

DecomposeInputs ==
    ({(k * Gamma2) + d :
          k \in 0..((Q - 1) \div Gamma2),
          d \in (0 - DecomposeWindow)..DecomposeWindow}
     \cup {12345, 3670016, Q - 12345})
    \cap (0..(Q - 1))

DecomposeCall ==
    /\ call = NoCall
    /\ \E r \in DecomposeInputs :
           call' = [fn |-> "Decompose", arg |-> r, out |-> Decompose(r)]
    /\ UNCHANGED <<spongeVars, signerVars>>

NextDecompose == DecomposeCall

SpecDecompose == Init /\ [][NextDecompose]_vars

\* C15 as stated: for r in [0, Q) the low part of Decompose(r) is in
\* (-Gamma2, Gamma2].
C15_LowPartHalfOpen ==
    call.fn = "Decompose"
        => (0 - Gamma2 < call.out.r0 /\ call.out.r0 <= Gamma2)

\* C15 as the code has it: the low part is in [-Gamma2, Gamma2], and it is
\* -Gamma2 for r = Q - Gamma2 only, where Decompose returns (-Gamma2, 0).
C15_LowPartClosed ==
    call.fn = "Decompose"
        => /\ 0 - Gamma2 <= call.out.r0
           /\ call.out.r0 <= Gamma2
           /\ call.out.r0 = 0 - Gamma2
                  <=> call.arg = Q - Gamma2
           /\ call.arg = Q - Gamma2 => call.out.r1 = 0

\* Decompose has been applied to Q - Gamma2
C15_Witness ==
    /\ call.fn = "Decompose"
    /\ call.arg = Q - Gamma2
    /\ call.out = [r0 |-> 0 - Gamma2, r1 |-> 0]

\* C16: for r in [0, Q), Decompose(r) = (r0, r1) has
\* r1 * 2 * Gamma2 + r0 = r modulo Q, also in the corner case
\* r - r0 = Q - 1, where (r0 - 1, 0) is returned.
C16_DecomposeReconstructs ==
    call.fn = "Decompose"
        => /\ call.out.r1 \in 0..((Q - 1) \div (2 * Gamma2))
           /\ Mod((call.out.r1 * 2 * Gamma2) + call.out.r0) = call.arg

\* Decompose has been applied to an element of the corner case other
\* than Q - 1
C16_Witness ==
    /\ call.fn = "Decompose"
    /\ call.arg = Q - 3
    /\ call.out = [r0 |-> 0 - 3, r1 |-> 0]

-----------------------------------------------------------------------------
(* pkg/encoding: the three packings applied to byte strings of the         *)
(* packing's length and to polynomials in the packing's range              *)

\* bytes the strings are made of: 0x70 is the top byte of Q - 1 and of Q
EncBytes == {0, 1, 112, 113, 170, 255}

\* the string of n bytes a b c a b c ...
ByteString(n, a, b, c) ==
    Array([x \in 1..n |->
        IF x % 3 = 1 THEN a ELSE IF x % 3 = 2 THEN b ELSE c])

\* the polynomial with coefficients a b c d a b c d ...
PolyOf(a, b, c, d) ==
    Array([x \in 0..(N - 1) |->
        CASE x % 4 = 0 -> a [] x % 4 = 1 -> b [] x % 4 = 2 -> c [] OTHER -> d])

\* coefficients in [0, Q)
FesCoeffs == {0, 1, 65536, Q - 1}

\* coefficients in {-Eta, ..., Eta} mod Q
EtaCoeffs == {Mod(e + Q) : e \in (0 - Eta)..Eta}

\* coefficients in [-Gamma1 + 1, Gamma1] mod Q
Gamma1Coeffs == {Mod(e + Q) : e \in {1 - Gamma1, 0 - 1, 0, 65537, Gamma1}}

\* the value the x-th group of three bytes encodes
GroupValue(bs, x) ==
    bs[(3 * x) - 2] + (256 * bs[(3 * x) - 1]) + (65536 * bs[3 * x])

UnpackFesCall ==
    /\ call = NoCall
    /\ \E a \in EncBytes, b \in EncBytes, c \in EncBytes :
           LET bs == ByteString(3 * N, a, b, c)
           IN  call' = [fn |-> "UnpackFes", arg |-> bs,
                        out |-> [fes |-> UnpackFes(bs),
                                 bs |-> PackFes(UnpackFes(bs))]]
    /\ UNCHANGED <<spongeVars, signerVars>>

UnpackPolyLeqEtaCall ==
    /\ call = NoCall
    /\ \E a \in EncBytes, b \in EncBytes, c \in EncBytes :
           LET bs == ByteString(PolyLeqEtaSize, a, b, c)
           IN  call' = [fn |-> "UnpackPolyLeqEta", arg |-> bs,
                        out |-> [poly |-> UnpackPolyLeqEta(bs),
                                 bs |-> PackPolyLeqEta(UnpackPolyLeqEta(bs))]]
    /\ UNCHANGED <<spongeVars, signerVars>>

UnpackPolyLeGamma1Call ==
    /\ call = NoCall
    /\ \E a \in EncBytes, b \in EncBytes, c \in EncBytes :
           LET bs == ByteString(PolyLeGamma1Size, a, b, c)
           IN  call' = [fn |-> "UnpackPolyLeGamma1", arg |-> bs,
                        out |-> [poly |-> UnpackPolyLeGamma1(bs),
                                 bs |-> PackPolyLeGamma1(UnpackPolyLeGamma1(bs))]]
    /\ UNCHANGED <<spongeVars, signerVars>>

PackPolyCall ==
    /\ call = NoCall
    /\ \E a \in FesCoeffs, b \in FesCoeffs, c \in FesCoeffs, d \in FesCoeffs :
           LET cs == PolyOf(a, b, c, d)
           IN  call' = [fn |-> "PackPoly", arg |-> cs,
                        out |-> [bs |-> PackPoly(cs),
                                 poly |-> UnpackPoly(PackPoly(cs))]]
    /\ UNCHANGED <<spongeVars, signerVars>>

PackPolyLeqEtaCall ==
    /\ call = NoCall
    /\ \E a \in EtaCoeffs, b \in EtaCoeffs, c \in EtaCoeffs, d \in EtaCoeffs :
           LET cs == PolyOf(a, b, c, d)
           IN  call' = [fn |-> "PackPolyLeqEta", arg |-> cs,
                        out |-> [bs |-> PackPolyLeqEta(cs),
                                 poly |-> UnpackPolyLeqEta(PackPolyLeqEta(cs))]]
    /\ UNCHANGED <<spongeVars, signerVars>>

PackPolyLeGamma1Call ==
    /\ call = NoCall
    /\ \E a \in Gamma1Coeffs, b \in Gamma1Coeffs,
          c \in Gamma1Coeffs, d \in Gamma1Coeffs :
           LET cs == PolyOf(a, b, c, d)
           IN  call' = [fn |-> "PackPolyLeGamma1", arg |-> cs,
                        out |-> [bs |-> PackPolyLeGamma1(cs),
                                 poly |-> UnpackPolyLeGamma1(PackPolyLeGamma1(cs))]]
    /\ UNCHANGED <<spongeVars, signerVars>>

NextEncoding ==
    \/ UnpackFesCall
    \/ UnpackPolyLeqEtaCall
    \/ UnpackPolyLeGamma1Call
    \/ PackPolyCall
    \/ PackPolyLeqEtaCall
    \/ PackPolyLeGamma1Call

SpecEncoding == Init /\ [][NextEncoding]_vars

\* C17 as stated: for each of the 3-byte, 3-bit and 18-bit packings and
\* every byte string of the packing's length, packing the result of
\* unpacking the string returns the string.
C17_UnpackThenPackIsIdentity ==
    call.fn \in {"UnpackFes", "UnpackPolyLeqEta", "UnpackPolyLeGamma1"}
        => call.out.bs = call.arg

\* C17 as the code has it: the 3-bit and the 18-bit packing return every
\* byte string; the 3-byte packing returns the string exactly when each
\* group of three bytes encodes a value below Q, since UnpackFes reduces
\* modulo Q.
C17_UnpackThenPackCanonical ==
    /\ call.fn \in {"UnpackPolyLeqEta", "UnpackPolyLeGamma1"}
           => call.out.bs = call.arg
    /\ call.fn = "UnpackFes"
           => /\ Len(call.out.bs) = Len(call.arg)
              /\ \A x \in 1..N :
                     GroupValue(call.out.bs, x) = GroupValue(call.arg, x)
                         <=> GroupValue(call.arg, x) < Q
              /\ \A x \in 1..N :
                     GroupValue(call.out.bs, x) = GroupValue(call.arg, x) % Q

\* UnpackFes and PackFes have been applied to a string whose groups
\* encode Q, and the bytes of 0 came back
C17_Witness ==
    /\ call.fn = "UnpackFes"
    /\ GroupValue(call.arg, 1) = Q
    /\ call.out.fes[1] = 0
    /\ GroupValue(call.out.bs, 1) = 0

\* C18: for each of the three packings, unpacking the packed form of a
\* polynomial with all coefficients in the packing's range ([0, Q),
\* {-Eta..Eta} mod Q, [-Gamma1 + 1, Gamma1] mod Q) returns the polynomial.
C18_PackThenUnpackIsIdentity ==
    /\ call.fn \in {"PackPoly", "PackPolyLeqEta", "PackPolyLeGamma1"}
           => call.out.poly = call.arg
    /\ call.fn = "PackPoly" => Len(call.out.bs) = 3 * N
    /\ call.fn = "PackPolyLeqEta" => Len(call.out.bs) = PolyLeqEtaSize
    /\ call.fn = "PackPolyLeGamma1" => Len(call.out.bs) = PolyLeGamma1Size

\* the 18-bit packing has been applied to a polynomial holding both ends
\* of its range, and the polynomial came back
C18_Witness ==
    /\ call.fn = "PackPolyLeGamma1"
    /\ call.arg[0] = Gamma1
    /\ call.arg[1] = Q + 1 - Gamma1
    /\ call.out.poly = call.arg
-----------------------------------------------------------------------------
(* encoding.BytesToFes applied to two byte sequences                       *)

\* the longest byte sequence converted
MaxBytes == 3

\* the bytes the sequences are made of; 104 is 'h'
MsgBytes == {0, 1, 104, 255}

ByteSeqs == UNION {[1..n -> MsgBytes] : n \in 0..MaxBytes}

BytesToFesCall ==
    /\ call = NoCall
    /\ \E a \in ByteSeqs, b \in ByteSeqs :
           call' = [fn |-> "BytesToFes", arg |-> <<a, b>>,
                    out |-> <<BytesToFes(a), BytesToFes(b)>>]
    /\ UNCHANGED <<spongeVars, signerVars>>

NextBytesToFes == BytesToFesCall

SpecBytesToFes == Init /\ [][NextBytesToFes]_vars

\* C19: BytesToFes maps any two different byte sequences, a sequence and
\* the same sequence followed by a zero byte among them, to different
\* sequences of field elements.
C19_BytesToFesInjective ==
    call.fn = "BytesToFes"
        => /\ call.arg[1] # call.arg[2] => call.out[1] # call.out[2]
           /\ \A k \in 1..2 :
                  /\ Len(call.out[k]) = (Len(call.arg[k]) + 1) \div 2
                  /\ \A x \in 1..Len(call.out[k]) : call.out[k][x] \in 1..(Q - 1)

\* BytesToFes has been applied to b'h' and b'h\0' and the results differ
C19_Witness ==
    /\ call.fn = "BytesToFes"
    /\ call.arg = <<<<104>>, <<104, 0>>>>
    /\ call.out = <<<<105>>, <<362>>>>
-----------------------------------------------------------------------------
(* ntt.NTT and ntt.InvNTT applied one after the other, in both orders, in  *)
(* the plain form and in the Montgomery form                               *)

\* coefficients the polynomials are made of
NTTCoeffs == {0, 1, 2, 1234567, Q - 1}

NTTInputs ==
    {PolyOf(a, b, c, d) :
         a \in NTTCoeffs, b \in NTTCoeffs, c \in NTTCoeffs, d \in NTTCoeffs}
    \cup {[x \in 0..(N - 1) |-> IF x = k THEN v ELSE 0] :
              k \in 0..(N - 1), v \in NTTCoeffs}
    \cup {[x \in 0..(N - 1) |-> ((x * x * 1234) + (x * 4567) + (k * 700001)) % Q] :
              k \in 0..9}
    \cup {[x \in 0..(N - 1) |-> x]}

NttNTTCall ==
    /\ call = NoCall
    /\ \E p \in NTTInputs :
           call' = [fn |-> "ntt.NTT", arg |-> p,
                    out |-> [hat |-> NttNTT(p),
                             back |-> NttInvNTT(NttNTT(p)),
                             forth |-> NttNTT(NttInvNTT(p))]]
    /\ UNCHANGED <<spongeVars, signerVars>>

NTTCall ==
    /\ call = NoCall
    /\ \E p \in NTTInputs :
           call' = [fn |-> "ntt.NTT Montgomery", arg |-> p,
                    out |-> [hat |-> NTT(p),
                             back |-> InvNTT(NTT(p)),
                             forth |-> NTT(InvNTT(p))]]
    /\ UNCHANGED <<spongeVars, signerVars>>

NextNTT == NttNTTCall \/ NTTCall

SpecNTT == Init /\ [][NextNTT]_vars

\* C20: for every polynomial p with canonical coefficients,
\* InvNTT(NTT(p)) = p and NTT(InvNTT(p)) = p, coefficient by coefficient;
\* the plain and the Montgomery NTT give the same transform.
C20_NTTRoundTrip ==
    call.fn \in {"ntt.NTT", "ntt.NTT Montgomery"}
        => /\ \A x \in 0..(N - 1) :
                  /\ call.out.back[x] = call.arg[x]
                  /\ call.out.forth[x] = call.arg[x]
                  /\ call.out.hat[x] \in 0..(Q - 1)
           /\ call.out.hat = NttNTT(call.arg)

\* the plain NTT has been applied to the polynomial 0, 1, 2, ..., changed
\* it, and InvNTT gave it back
C20_Witness ==
    /\ call.fn = "ntt.NTT"
    /\ call.arg = [x \in 0..(N - 1) |-> x]
    /\ call.out.hat # call.arg
    /\ call.out.back = call.arg
    /\ call.out.forth = call.arg
-----------------------------------------------------------------------------
(* Two callers running at once.  The package tables are the shared memory; *)
(* each caller owns its state or polynomial.  A step is one poseidonRound  *)
(* or one layer of an NTT, reading the tables as they are at that moment.  *)

\* the tables as the init functions leave them
InitTables ==
    [PosRCsMont |-> PosRCsMont, PosInvMont |-> PosInvMont,
     Zetas |-> Zetas, InvZetas |-> InvZetas,
     ZetasMont |-> ZetasMont, InvZetasMont |-> InvZetasMont,
     Inv2Mont |-> Inv2Mont]

\* what a caller may be running, with its argument
SharedJobs ==
    {[job |-> "PoseidonPerm", data |-> st, step |-> 0] :
         st \in {ZeroState, [k \in 0..(PosT - 1) |-> ((k + 1) * 1234567) % Q]}}
    \cup {[job |-> j, data |-> [x \in 0..(N - 1) |-> ((x + 1) * 700001) % Q],
           step |-> 0] :
              j \in {"NTT", "InvNTT", "NTT plain", "InvNTT plain"}}

\* a round that leaves the inverted state in the MDS table
PoseidonRoundInMemoryOverTable(mem, t) ==
    [mem EXCEPT
        !.tables.PosInvMont =
            [k \in DOMAIN @ |-> IF k < PosT THEN mem.th[t].data[k] ELSE @[k]],
        !.th[t].data = poseidonRoundOn(mem.tables.PosRCsMont,
                                       mem.tables.PosInvMont,
                                       @, mem.th[t].step),
        !.th[t].step = @ + 1]

\* poseidonRound(state, scratch, r) of caller t: writes state and scratch,
\* both the caller's
PoseidonRoundInMemory(mem, t) ==
    [mem EXCEPT
        !.th[t].data = poseidonRoundOn(mem.tables.PosRCsMont,
                                       mem.tables.PosInvMont,
                                       @, mem.th[t].step),
        !.th[t].step = @ + 1]

\* the layer an NTT is at after k layers, and an InvNTT
LayerDown(k) == N \div (2 ^ (k + 1))

LayerUp(k) == 2 ^ k

\* one layer of caller t's transform: writes cs, the caller's
NTTLayerInMemory(mem, t) ==
    LET th == mem.th[t]
        tb == mem.tables
    IN  [mem EXCEPT
            !.th[t].data =
                CASE th.job = "NTT" ->
                         NTTLayerOn(tb.ZetasMont, @, LayerDown(th.step))
                  [] th.job = "InvNTT" ->
                         InvNTTLayerOn(tb.InvZetasMont, tb.Inv2Mont, @,
                                       LayerUp(th.step))
                  [] th.job = "NTT plain" ->
                         NttNTTLayerOn(tb.Zetas, @, LayerDown(th.step))
                  [] OTHER ->
                         NttInvNTTLayerOn(tb.InvZetas, @, LayerUp(th.step)),
            !.th[t].step = @ + 1]

\* the number of steps of a job
JobSteps(job) == IF job = "PoseidonPerm" THEN PermRounds ELSE NBits

\* what the job returns when it runs alone
JobAlone(j) ==
    CASE j.job = "PoseidonPerm" -> PoseidonPerm(j.data)
      [] j.job = "NTT" -> NTT(j.data)
      [] j.job = "InvNTT" -> InvNTT(j.data)
      [] j.job = "NTT plain" -> NttNTT(j.data)
      [] OTHER -> NttInvNTT(j.data)

SharedStart ==
    /\ call = NoCall
    /\ \E a \in SharedJobs, b \in SharedJobs :
           call' = [fn |-> "shared", arg |-> <<a, b>>,
                    out |-> [tables |-> InitTables, th |-> <<a, b>>]]
    /\ UNCHANGED <<spongeVars, signerVars>>

PoseidonRoundStep ==
    /\ call.fn = "shared"
    /\ \E t \in 1..2 :
           /\ call.out.th[t].job = "PoseidonPerm"
           /\ call.out.th[t].step < PermRounds
           /\ call' = [call EXCEPT !.out = PoseidonRoundInMemory(call.out, t)]
    /\ UNCHANGED <<spongeVars, signerVars>>

NTTLayerStep ==
    /\ call.fn = "shared"
    /\ \E t \in 1..2 :
           /\ call.out.th[t].job # "PoseidonPerm"
           /\ call.out.th[t].step < NBits
           /\ call' = [call EXCEPT !.out = NTTLayerInMemory(call.out, t)]
    /\ UNCHANGED <<spongeVars, signerVars>>

NextShared == SharedStart \/ PoseidonRoundStep \/ NTTLayerStep

SpecShared == Init /\ [][NextShared]_vars

\* C21: the Poseidon round-constant and MDS-inverse tables and the NTT
\* twiddle tables are written by the init functions only: whatever two
\* callers run at once and however their steps interleave, the tables stay
\* as init left them, and each caller gets what it gets running alone.
C21_TablesOnlyWrittenByInit ==
    call.fn = "shared"
        => /\ call.out.tables = InitTables
           /\ \A t \in 1..2 :
                  call.out.th[t].step = JobSteps(call.out.th[t].job)
                      => call.out.th[t].data = JobAlone(call.arg[t])

\* two callers are both in the middle of a permutation, the first having
\* started from a non-zero state
C21_Witness ==
    /\ call.fn = "shared"
    /\ call.out.th[1].job = "PoseidonPerm" /\ call.out.th[1].step = 1
    /\ call.out.th[2].job = "PoseidonPerm" /\ call.out.th[2].step = 1
    /\ call.arg[1].data # ZeroState
    /\ call.out.th[1].data # call.arg[1].data
-----------------------------------------------------------------------------
(* Further claims about Sign and Verify, under Spec *)

\* the low bits of w - c*s2 of the iteration Sign's locals belong to
R0OfIteration == SignR0(sgn.wMont, NTT(PolyToMont(sgn.c.c)), sgn.s2Hat)

\* the coefficients of the polynomials of a vector
CoeffsOf(v) == {v[r][x] : r \in DOMAIN v, x \in 0..(N - 1)}

\* a coefficient read as a signed value
Signed(c) == IF c > (Q - 1) \div 2 THEN c - Q ELSE c

\* Sign has just been through its r0 check
AfterGates ==
    /\ pc \in {"loop", "signed"}
    /\ Len(gates) > 0
    /\ gates[Len(gates)] \in {"r0", "z", "accept"}

\* C22: Sign rejects an iteration at the r0 gate exactly when a coefficient
\* of the low bits of w - c*s2, read as a signed value, has absolute value
\* at least Gamma2 - Beta, negative coefficients included.
C22_R0GateSignedNorm ==
    AfterGates
        => (gates[Len(gates)] = "r0"
               <=> \E c \in CoeffsOf(R0OfIteration) :
                       \/ Signed(c) >= Gamma2 - Beta
                       \/ 0 - Signed(c) >= Gamma2 - Beta)

\* an iteration has been rejected at the r0 gate for a negative coefficient
\* alone
C22_Witness ==
    /\ AfterGates
    /\ gates[Len(gates)] = "r0"
    /\ \A c \in CoeffsOf(R0OfIteration) : Signed(c) < Gamma2 - Beta
    /\ \E c \in CoeffsOf(R0OfIteration) : 0 - Signed(c) >= Gamma2 - Beta

\* C25: Verify returns false for every signature in which one of the CSize
\* groups of three bytes of the cTilde field encodes an integer of at least
\* Q.
C25_NonCanonicalCTildeRejected ==
    (/\ pc = "verified"
     /\ Len(vin.sig) = ExpectedSigLen
     /\ \E x \in 1..CSize :
            vin.sig[(3 * x) - 2] + (256 * vin.sig[(3 * x) - 1])
                + (65536 * vin.sig[3 * x]) >= Q)
        => verdict = "false"
-----------------------------------------------------------------------------
(* Sign's loop as far as the nonce goes: each iteration calls              *)
(* SampleY(rho2, yNonce), which appends the two nonce bytes of yNonce + i  *)
(* to rho2 for row i, and adds L to yNonce.  Every iteration is taken to   *)
(* be rejected; one earlier iteration is remembered for comparison.        *)

\* how many iterations the loop is followed for
MaxIterations == 16386

\* the iterations that may be remembered
MarkedIterations == {0, 1, 5}

NoIteration == [iter |-> 0 - 1]

\* iteration k, entered with yNonce = n
LoopIteration(k, n) ==
    [iter |-> k, nonce |-> n,
     bytes |-> [r \in 0..(L - 1) |-> NonceBytes(n + r)],
     yNonce |-> NextNonce(n)]

SignLoopEnter ==
    /\ call = NoCall
    /\ call' = [fn |-> "SampleY", arg |-> NoIteration,
                out |-> LoopIteration(0, 0)]
    /\ UNCHANGED <<spongeVars, signerVars>>

SignLoopContinue ==
    /\ call.fn = "SampleY"
    /\ call.out.iter + 1 < MaxIterations
    /\ \E keep \in BOOLEAN :
           call' = [call EXCEPT
               !.arg = IF keep /\ @ = NoIteration
                          /\ call.out.iter \in MarkedIterations
                       THEN call.out ELSE @,
               !.out = LoopIteration(@.iter + 1, @.yNonce)]
    /\ UNCHANGED <<spongeVars, signerVars>>

NextSignLoop == SignLoopEnter \/ SignLoopContinue

SpecSignLoop == Init /\ [][NextSignLoop]_vars

\* the (iteration, row) pairs of the remembered and the current iteration
\* with their nonce bytes
LoopRows ==
    {<<it.iter, r, it.bytes[r]>> :
         it \in {call.out} \cup ({call.arg} \ {NoIteration}), r \in 0..(L - 1)}

\* C24 as stated: within one Sign call, any two different (iteration, row)
\* pairs get different nonce bytes, however many iterations the loop runs.
C24_NonceBytesNeverRepeat ==
    call.fn = "SampleY"
        => \A a \in LoopRows, b \in LoopRows :
               (a[1] # b[1] \/ a[2] # b[2]) => a[3] # b[3]

\* C24 as the code has it: the two bytes hold nonce + i modulo 65536, so
\* different (iteration, row) pairs get different bytes as long as both
\* iterations are among the first 65536 / L, and iteration k + 65536 / L
\* gets the bytes of iteration k, row by row.
C24_NonceBytesDistinctBeforeWrap ==
    call.fn = "SampleY"
        => /\ \A a \in LoopRows, b \in LoopRows :
                  (/\ a[1] # b[1] \/ a[2] # b[2]
                   /\ a[1] < 65536 \div L
                   /\ b[1] < 65536 \div L) => a[3] # b[3]
           /\ (call.arg # NoIteration
               /\ call.out.iter = call.arg.iter + (65536 \div L))
                  => call.out.bytes = call.arg.bytes

\* the loop has reached iteration 65536 / L with iteration 0 remembered,
\* and the nonce bytes are those of iteration 0
C24_Witness ==
    /\ call.fn = "SampleY"
    /\ call.arg # NoIteration
    /\ call.arg.iter = 0
    /\ call.out.iter = 65536 \div L
    /\ call.out.nonce = 65536
    /\ call.out.bytes = call.arg.bytes
-----------------------------------------------------------------------------
(* pkg/field: BatchInvMont and the no-zero tree inversions as the source   *)
(* computes them, lazy products included.                                  *)

\* The loops below run over an index range lo..hi that is halved until it
\* holds one index, the first half evaluated before the second is entered,
\* which keeps the evaluation shallow; the indices are visited in the
\* source's order.

\* the forward pass: prods[k] = the lazy product of the non-zero xs[0..k]
RECURSIVE BatchInvMontProds(_, _, _, _)
BatchInvMontProds(xs, lo, hi, prods) ==
    IF lo > hi THEN prods
    ELSE IF lo < hi
    THEN LET mid == (lo + hi) \div 2
             low == BatchInvMontProds(xs, lo, mid, prods)
         IN  IF low = low THEN BatchInvMontProds(xs, mid + 1, hi, low)
             ELSE low
    ELSE LET v == IF lo = 0 THEN (IF xs[0] = 0 THEN ToMont(1) ELSE xs[0])
                  ELSE IF xs[lo] = 0 THEN prods[lo - 1]
                  ELSE mulMontLazy(prods[lo - 1], xs[lo])
         IN  Array((lo :> v) @@ prods)

\* one pass of the backward loop at index k >= 1 on [inv, out]: xs[k] is
\* finalised with the strict product and inv stays lazy
BatchInvMontBackStep(xs, prods, k, st) ==
    IF xs[k] = 0 THEN st
    ELSE Array([inv |-> mulMontLazy(st.inv, xs[k]),
                out |-> [st.out EXCEPT ![k] = MulMontWord(st.inv, prods[k - 1])]])

\* the backward loop for k = hi down to lo
RECURSIVE BatchInvMontBackLoop(_, _, _, _, _)
BatchInvMontBackLoop(xs, prods, lo, hi, st) ==
    IF lo > hi THEN st
    ELSE IF lo < hi
    THEN LET mid == (lo + hi) \div 2
             high == BatchInvMontBackLoop(xs, prods, mid + 1, hi, st)
         IN  IF high = high THEN BatchInvMontBackLoop(xs, prods, lo, mid, high)
             ELSE high
    ELSE BatchInvMontBackStep(xs, prods, lo, st)

\* the first element takes reduce(inv)
BatchInvMontFirst(xs, st) ==
    IF xs[0] # 0 THEN [st.out EXCEPT ![0] = reduce(st.inv)] ELSE st.out

BatchInvMont(xs) ==
    IF DOMAIN xs = {} THEN xs
    ELSE LET n     == Cardinality(DOMAIN xs)
             prods == BatchInvMontProds(xs, 0, n - 1, <<>>)
             inv   == InvMontChain(reduce(prods[n - 1]))
         IN  BatchInvMontFirst(xs,
                 BatchInvMontBackLoop(xs, prods, 1, n - 1,
                                      [inv |-> inv, out |-> xs]))

\* the statements of batchInvMontTreeNoZeroILP4_35, in the source's order.
\* Up-sweep: s[dst] = mulMontLazy(x[a], x[b]) or (s[a], s[b]), or a copy of
\* x[a] or s[a].
ILP4_35_UpSweep ==
    <<
       <<"mulx", 0, 0, 1>>, <<"mulx", 1, 2, 3>>, <<"mulx", 2, 4, 5>>,
       <<"mulx", 3, 6, 7>>, <<"mulx", 4, 8, 9>>, <<"mulx", 5, 10, 11>>,
       <<"mulx", 6, 12, 13>>, <<"mulx", 7, 14, 15>>, <<"mulx", 8, 16, 17>>,
       <<"mulx", 9, 18, 19>>, <<"mulx", 10, 20, 21>>, <<"mulx", 11, 22, 23>>,
       <<"mulx", 12, 24, 25>>, <<"mulx", 13, 26, 27>>, <<"mulx", 14, 28, 29>>,
       <<"mulx", 15, 30, 31>>, <<"mulx", 16, 32, 33>>, <<"copyx", 17, 34, 34>>,
       <<"muls", 18, 0, 1>>, <<"muls", 19, 2, 3>>, <<"muls", 20, 4, 5>>,
       <<"muls", 21, 6, 7>>, <<"muls", 22, 8, 9>>, <<"muls", 23, 10, 11>>,
       <<"muls", 24, 12, 13>>, <<"muls", 25, 14, 15>>, <<"muls", 26, 16, 17>>,
       <<"muls", 27, 18, 19>>, <<"muls", 28, 20, 21>>, <<"muls", 29, 22, 23>>,
       <<"muls", 30, 24, 25>>, <<"copys", 31, 26, 26>>, <<"muls", 32, 27, 28>>,
       <<"muls", 33, 29, 30>>, <<"copys", 34, 31, 31>>, <<"muls", 35, 32, 33>>,
       <<"copys", 36, 34, 34>>
    >>

\* Down-sweep on s: parentInv = s[p], leftVal = s[l], rightVal = s[r],
\* s[l] = mulMontLazy(parentInv, rightVal), s[r] = mulMontLazy(parentInv,
\* leftVal); or a copy s[dst] = s[a].
ILP4_35_DownSweep ==
    <<
       <<"pair", 37, 35, 36>>, <<"pair", 35, 32, 33>>, <<"copy", 34, 36, 36>>,
       <<"pair", 32, 27, 28>>, <<"pair", 33, 29, 30>>, <<"copy", 31, 34, 34>>,
       <<"pair", 27, 18, 19>>, <<"pair", 28, 20, 21>>, <<"pair", 29, 22, 23>>,
       <<"pair", 30, 24, 25>>, <<"copy", 26, 31, 31>>, <<"pair", 18, 0, 1>>,
       <<"pair", 19, 2, 3>>, <<"pair", 20, 4, 5>>, <<"pair", 21, 6, 7>>,
       <<"pair", 22, 8, 9>>, <<"pair", 23, 10, 11>>, <<"pair", 24, 12, 13>>,
       <<"pair", 25, 14, 15>>, <<"pair", 26, 16, 17>>
    >>

\* Final layer, on x with the strict product: parentInv = s[p],
\* x[l] = MulMont(parentInv, x[r]), x[r] = MulMont(parentInv, x[l]).
ILP4_35_FinalLayer ==
    <<
       <<0, 0, 1>>, <<1, 2, 3>>, <<2, 4, 5>>, <<3, 6, 7>>,
       <<4, 8, 9>>, <<5, 10, 11>>, <<6, 12, 13>>, <<7, 14, 15>>,
       <<8, 16, 17>>, <<9, 18, 19>>, <<10, 20, 21>>, <<11, 22, 23>>,
       <<12, 24, 25>>, <<13, 26, 27>>, <<14, 28, 29>>, <<15, 30, 31>>,
       <<16, 32, 33>>
    >>

\* s after the up-sweep statements lo..hi
RECURSIVE ILP4_35_Up(_, _, _, _)
ILP4_35_Up(x, sc, lo, hi) ==
    IF lo < hi
    THEN LET mid == (lo + hi) \div 2
             low == ILP4_35_Up(x, sc, lo, mid)
         IN  IF low = low THEN ILP4_35_Up(x, low, mid + 1, hi) ELSE low
    ELSE LET st == ILP4_35_UpSweep[lo]
             v  == IF st[1] = "mulx" THEN mulMontLazy(x[st[3]], x[st[4]])
                   ELSE IF st[1] = "muls" THEN mulMontLazy(sc[st[3]], sc[st[4]])
                   ELSE IF st[1] = "copyx" THEN x[st[3]]
                   ELSE sc[st[3]]
         IN  Array((st[2] :> v) @@ sc)

\* s after the down-sweep statements lo..hi
RECURSIVE ILP4_35_Down(_, _, _)
ILP4_35_Down(sc, lo, hi) ==
    IF lo < hi
    THEN LET mid == (lo + hi) \div 2
             low == ILP4_35_Down(sc, lo, mid)
         IN  IF low = low THEN ILP4_35_Down(low, mid + 1, hi) ELSE low
    ELSE LET st == ILP4_35_DownSweep[lo]
         IN  IF st[1] = "copy"
             THEN [sc EXCEPT ![st[2]] = sc[st[3]]]
             ELSE LET parentInv == sc[st[2]]
                      leftVal   == sc[st[3]]
                      rightVal  == sc[st[4]]
                  IN  [sc EXCEPT ![st[3]] = mulMontLazy(parentInv, rightVal),
                                 ![st[4]] = mulMontLazy(parentInv, leftVal)]

\* x after the final layer's statements lo..hi
RECURSIVE ILP4_35_Final(_, _, _, _)
ILP4_35_Final(x, sc, lo, hi) ==
    IF lo < hi
    THEN LET mid == (lo + hi) \div 2
             low == ILP4_35_Final(x, sc, lo, mid)
         IN  IF low = low THEN ILP4_35_Final(low, sc, mid + 1, hi) ELSE low
    ELSE LET st        == ILP4_35_FinalLayer[lo]
             parentInv == sc[st[1]]
             leftVal   == x[st[2]]
             rightVal  == x[st[3]]
         IN  [x EXCEPT ![st[2]] = MulMontWord(parentInv, rightVal),
                       ![st[3]] = MulMontWord(parentInv, leftVal)]

batchInvMontTreeNoZeroILP4_35(xs) ==
    LET up   == ILP4_35_Up(xs, <<>>, 1, Len(ILP4_35_UpSweep))
        root == Array((37 :> InvMontChain(reduce(mulMontLazy(up[35], up[36]))))
                          @@ up)
        down == ILP4_35_Down(root, 1, Len(ILP4_35_DownSweep))
        last == ILP4_35_Final(xs, down, 1, Len(ILP4_35_FinalLayer))
    IN  [last EXCEPT ![34] = reduce(down[17])]

\* the no-zero tree: one element, the fixed path for PosT elements, or the
\* layered sweep with the write-back through reduce
BatchInvMontTreeNoZeroILP4(xs) ==
    LET n == Cardinality(DOMAIN xs)
    IN  IF n = 0 THEN xs
        ELSE IF n = 1
        THEN Array([c \in {0} |-> InvMontChain(reduce(xs[0]))])
        ELSE IF n = PosT THEN batchInvMontTreeNoZeroILP4_35(xs)
        ELSE LET done == TreeSweep(xs)
             IN  Array([c \in DOMAIN xs |-> reduce(done[c])])

\* a dispatch that takes the no-zero path whatever the pre-scan finds
BatchInvMontTreeCondNoScan(xs) == BatchInvMontTreeNoZeroILP4(xs)

\* BatchInvMontTreeCond on words: the pre-scan for a zero, then the
\* zero-aware tree or the no-zero path
BatchInvMontTreeCondWord(xs) ==
    LET hasZero == \E k \in DOMAIN xs : xs[k] = 0
    IN  IF hasZero THEN BatchInvMontTree(xs)
        ELSE BatchInvMontTreeNoZeroILP4(xs)
-----------------------------------------------------------------------------
(* pkg/hash: poseidonRound on words.  The 35 products of a row are summed  *)
(* in three uint64 chains and reduced once.                                *)

\* the uint64 sum of inv[j] * old[j] over the columns j = c, c + 5, ... of
\* one chain, and of the column after each when the chain takes two
RECURSIVE RowChain(_, _, _, _, _)
RowChain(inv, old, c, two, acc) ==
    IF c >= PosT THEN acc
    ELSE LET one  == U64Mul(U64(inv[c]), U64(old[c]))
             grp  == IF two
                     THEN U64Add(one, U64Mul(U64(inv[c + 1]), U64(old[c + 1])))
                     ELSE one
             next == U64Add(acc, grp)
         IN  IF next = next THEN RowChain(inv, old, c + 5, two, next) ELSE acc

MDSRowWord(invs, old, row) ==
    LET inv == Array([j \in 0..(PosT - 1) |-> invs[row + j]])
        s01 == RowChain(inv, old, 0, TRUE, U64(0))
        s23 == RowChain(inv, old, 2, TRUE, U64(0))
        s4  == RowChain(inv, old, 4, FALSE, U64(0))
    IN  MontReduceWord(U64Add(U64Add(s01, s23), s4))

poseidonRoundWord(state, r) ==
    LET added   == Array([k \in 0..(PosT - 1) |->
                             Add(state[k], PosRCsMont[(PosT * r) + k])])
        scratch == BatchInvMontTreeCondWord(added)
    IN  Array([k \in 0..(PosT - 1) |-> MDSRowWord(PosInvMont, scratch, k)])

-----------------------------------------------------------------------------
(* The inversions and the round applied to vectors of canonical elements  *)

\* the longest of the short vectors
MaxWordVec == 3

\* a vector of PosT canonical elements, none of them zero, from a seed
WideVec(seed) ==
    Array([k \in 0..(PosT - 1) |-> 1 + (((seed + (k * 1234567)) % (Q - 1)))])

\* WideVec with a zero at index z
WideVecZeroAt(seed, z) == [WideVec(seed) EXCEPT ![z] = 0]

WideSeeds == {0, 4242, Q - 2}

WideVecs ==
    {WideVec(seed) : seed \in WideSeeds}
        \cup {WideVecZeroAt(seed, z) : seed \in WideSeeds, z \in {0, 17, 34}}
        \cup {[k \in 0..(PosT - 1) |-> Q - 1], [k \in 0..(PosT - 1) |-> 0]}

WordVecs == (UNION {[0..(n - 1) -> VecElems] : n \in 0..MaxWordVec}) \cup WideVecs

\* canonical elements; the chain of 1879 ends on a lazy value of Q or more
InvMontInputs == VecElems \cup {1879, 4194304, Q - 2}

InvMontCall ==
    /\ call = NoCall
    /\ \E aM \in InvMontInputs :
           call' = [fn |-> "InvMont", arg |-> <<aM>>,
                    out |-> <<InvMontChain(aM)>>]
    /\ UNCHANGED <<spongeVars, signerVars>>

BatchInvMontCall ==
    /\ call = NoCall
    /\ \E xs \in WordVecs :
           call' = [fn |-> "BatchInvMont", arg |-> xs, out |-> BatchInvMont(xs)]
    /\ UNCHANGED <<spongeVars, signerVars>>

BatchInvMontTreeWordCall ==
    /\ call = NoCall
    /\ \E xs \in WordVecs :
           call' = [fn |-> "BatchInvMontTree", arg |-> xs,
                    out |-> BatchInvMontTree(xs)]
    /\ UNCHANGED <<spongeVars, signerVars>>

BatchInvMontTreeCondCall ==
    /\ call = NoCall
    /\ \E xs \in WordVecs :
           call' = [fn |-> "BatchInvMontTreeCond", arg |-> xs,
                    out |-> BatchInvMontTreeCondWord(xs)]
    /\ UNCHANGED <<spongeVars, signerVars>>

poseidonRoundCall ==
    /\ call = NoCall
    /\ \E state \in WideVecs, r \in 0..(PermRounds - 1) :
           call' = [fn |-> "poseidonRound", arg |-> state, round |-> r,
                    out |-> poseidonRoundWord(state, r)]
    /\ UNCHANGED <<spongeVars, signerVars>>

NextWords ==
    \/ InvMontCall
    \/ BatchInvMontCall
    \/ BatchInvMontTreeWordCall
    \/ BatchInvMontTreeCondCall
    \/ poseidonRoundCall

SpecWords == Init /\ [][NextWords]_vars

\* C26: for every vector of canonical Montgomery-form elements, with or
\* without zeros, BatchInvMontTreeCond returns the vector that the linear
\* BatchInvMont returns, which holds the Montgomery inverse of each element
\* and 0 for each 0.
C26_CondEqualsLinear ==
    call.fn = "BatchInvMontTreeCond"
        => /\ call.out = BatchInvMont(call.arg)
           /\ call.out = BatchInvMontTreeCond(call.arg)

\* BatchInvMontTreeCond has inverted a vector of PosT elements with one
\* zero among non-zero elements
C26_Witness ==
    /\ call.fn = "BatchInvMontTreeCond"
    /\ DOMAIN call.arg = 0..(PosT - 1)
    /\ call.arg[17] = 0
    /\ call.arg[0] # 0
    /\ call.out[0] # 0
    /\ call.out[17] = 0

\* C28: given canonical inputs, every value that InvMont, BatchInvMont, the
\* tree inversions and a Poseidon round (MontReduce of a 35-term row sum)
\* write back is canonical, 0 <= x < Q; InvMont's and the round's values are
\* the ones the reductions give by their value mod Q.
C28_NoLazyValueEscapes ==
    /\ call.fn \in {"InvMont", "BatchInvMont", "BatchInvMontTree",
                    "BatchInvMontTreeCond", "poseidonRound"}
           => \A k \in DOMAIN call.out : call.out[k] \in 0..(Q - 1)
    /\ call.fn = "InvMont" => call.out[1] = InvMont(call.arg[1])
    /\ call.fn = "poseidonRound"
           => call.out = poseidonRound(call.arg, call.round)

\* InvMont has returned the inverse of an element whose chain ended on a
\* lazy value of Q or more
C28_Witness ==
    /\ call.fn = "InvMont"
    /\ InvMontRun([v \in {"aM"} |-> call.arg[1]], 1, Len(InvMontSteps)).res >= Q
    /\ FromMont(MulMont(call.out[1], call.arg[1])) = 1
-----------------------------------------------------------------------------
(* pkg/hash, pkg/sampling: what SampleInBall reads after ApplyPerm        *)

\* State(): the sponge's field s itself
State(p) == p.s

\* the elements one cycle of SampleInBall takes from State(): state[8] for
\* the signs, state[0..7] for the swap positions
BallReads(p) ==
    [signs |-> State(p)[8], swaps |-> [j \in 0..7 |-> State(p)[j]]]

\* what Read outputs for position j: the element converted from Montgomery
\* form
ReadOutput(p, j) == FromMont(p.s[j])

\* C27: after ApplyPerm the elements SampleInBall reads through State(),
\* state[8] and state[0..7], are in plain canonical form: they are the
\* values Read would output for those positions.
C27_StateReadsArePlain ==
    (op.name = "ApplyPerm" /\ ~op.panicked)
        => /\ BallReads(P).signs = ReadOutput(P, 8)
           /\ \A j \in 0..7 : BallReads(P).swaps[j] = ReadOutput(P, j)
-----------------------------------------------------------------------------
(* pkg/hash: Write applied to an input in one call and in several          *)

\* the longest input: one element more than the rate
MaxWrite == 25

\* an input of n elements
WriteInput(n) == [k \in 1..n |-> ((k * k * 7919) + k) % Q]

WriteTotals == {0, 1, 2} \cup ((PosRate - 1)..MaxWrite)

\* the sponges written to: new, and after NewPoseidon of 2 and of
\* PosRate - 1 elements
WriteSponges == {NewPoseidon(Fes(n)) : n \in {0, 2, PosRate - 1}}

\* Write(fes[lo]); ...; Write(fes[hi]), one element per call; the range is
\* halved until it holds one element, the first half written before the
\* second
RECURSIVE WriteEach(_, _, _, _)
WriteEach(p, fes, lo, hi) ==
    IF lo > hi THEN p
    ELSE IF lo < hi
    THEN LET mid == (lo + hi) \div 2
             low == WriteEach(p, fes, lo, mid)
         IN  IF low = low THEN WriteEach(low, fes, mid + 1, hi) ELSE low
    ELSE PoseidonWrite(p, <<fes[lo]>>).p

\* Write(xs ++ ys) and Write(xs); Write(ys) on the same sponge
WriteSplitCall ==
    /\ call = NoCall
    /\ \E p \in WriteSponges, n \in WriteTotals :
         \E m \in 0..n :
           LET xs == SubSeq(WriteInput(n), 1, m)
               ys == SubSeq(WriteInput(n), m + 1, n)
           IN  call' = [fn |-> "WriteSplit",
                        arg |-> [p |-> p, xs |-> xs, ys |-> ys],
                        out |-> [whole |-> PoseidonWrite(p, xs \o ys).p,
                                 parts |-> PoseidonWrite(
                                               PoseidonWrite(p, xs).p, ys).p]]
    /\ UNCHANGED <<spongeVars, signerVars>>

\* Write(fes) and one Write per element of fes on the same sponge
WriteEachCall ==
    /\ call = NoCall
    /\ \E p \in WriteSponges, n \in WriteTotals :
           call' = [fn |-> "WriteEach",
                    arg |-> [p |-> p, xs |-> WriteInput(n), ys |-> <<>>],
                    out |-> [whole |-> PoseidonWrite(p, WriteInput(n)).p,
                             parts |-> WriteEach(p, WriteInput(n), 1, n)]]
    /\ UNCHANGED <<spongeVars, signerVars>>

NextWrite == WriteSplitCall \/ WriteEachCall

SpecWrite == Init /\ [][NextWrite]_vars

\* C29: absorbing does not depend on how the input is split into calls:
\* Write(xs ++ ys) leaves the sponge in the same state, position and flag
\* as Write(xs) followed by Write(ys), and as one Write per element.
C29_WriteSplitIndependent ==
    call.fn \in {"WriteSplit", "WriteEach"}
        => /\ call.out.whole.s = call.out.parts.s
           /\ call.out.whole.i = call.out.parts.i
           /\ call.out.whole.absorbing = call.out.parts.absorbing
           /\ call.out.whole.perms = call.out.parts.perms

\* an input split inside a block, the second part crossing the rate: the
\* permutation has run in the second call
C29_Witness ==
    /\ call.fn = "WriteSplit"
    /\ Len(call.arg.xs) > 0
    /\ call.arg.p.i + Len(call.arg.xs) < PosRate
    /\ call.arg.p.i + Len(call.arg.xs) + Len(call.arg.ys) > PosRate
    /\ call.out.parts.perms = call.arg.p.perms + 1
    /\ call.out.parts.i > 0
-----------------------------------------------------------------------------
(* pkg/hash: the streaming XOFs.  A StreamingXOF is the record             *)
(* [rate, input, squeezed, buf, pos, end]: the length of buf, what h has   *)
(* absorbed since its Reset, how many bytes h has given out, and the       *)
(* struct's buf, pos and end.  SHAKE is an oracle: byte k of its output    *)
(* for an input is the pair of the input and k, so that two bytes are      *)
(* equal only if they are the same byte of the same stream.                *)

\* the lengths of buf: the SHAKE-128 and SHAKE-256 rates
XofRates == {168, 136}

\* byte k of the output stream for the absorbed input
StreamByte(input, k) == [of |-> input, at |-> k]

\* a byte of the zeroed buf of a new struct
ZeroByte == [of |-> <<>>, at |-> 0 - 1]

\* NewStreamingXOF128Reusable, NewStreamingXOF256Reusable
NewStreamingXOF(rate) ==
    [rate |-> rate, input |-> <<>>, squeezed |-> 0,
     buf |-> [k \in 0..(rate - 1) |-> ZeroByte], pos |-> 0, end |-> 0]

\* Reset: h absorbs seed and then the low and the high byte of nonce
Reset(x, seed, nonce) ==
    [x EXCEPT !.input = seed \o <<nonce % 256, (nonce \div 256) % 256>>,
              !.squeezed = 0, !.pos = 0, !.end = 0]

\* a refill that overwrites the bytes not yet returned
XofRefillNoCarry(x) ==
    [x EXCEPT !.buf = [k \in 0..(x.rate - 1) |->
                          StreamByte(x.input, x.squeezed + k)],
              !.squeezed = x.squeezed + x.rate,
              !.pos = 0,
              !.end = x.rate]

\* the refill of Read3: the leftover bytes move to the front of buf and h
\* fills the rest
XofRefill(x) ==
    LET leftover == x.end - x.pos
        n        == x.rate - leftover
    IN  [x EXCEPT !.buf = [k \in 0..(x.rate - 1) |->
                              IF k < leftover THEN x.buf[x.pos + k]
                              ELSE StreamByte(x.input,
                                              x.squeezed + (k - leftover))],
                  !.squeezed = x.squeezed + n,
                  !.pos = 0,
                  !.end = leftover + n]

\* Read3: the struct it leaves and the three bytes it returns
Read3(x) ==
    LET y == IF x.pos + 3 > x.end THEN XofRefill(x) ELSE x
    IN  [x   |-> [y EXCEPT !.pos = y.pos + 3],
         ret |-> <<y.buf[y.pos], y.buf[y.pos + 1], y.buf[y.pos + 2]>>]

-----------------------------------------------------------------------------
(* One streaming XOF under Reset and Read3 calls                          *)

\* Read3 calls made on the struct
MaxRead3 == 95

\* Reset calls made on the struct
MaxResets == 2

XofSeeds == {<<7>>, <<7, 9>>}

\* nonces with a zero and a non-zero high byte
XofNonces == {3, 258}

\* call holds the struct, the last call and what it returned, and as ghosts
\* the arguments of the last Reset, whether a refill carried bytes over,
\* the Read3 calls since the last Reset and the calls made so far
XofNew ==
    /\ call = NoCall
    /\ \E rate \in XofRates :
           call' = [fn |-> "NewStreamingXOF", arg |-> <<>>, out |-> <<>>,
                    x |-> NewStreamingXOF(rate), seed |-> <<>>, nonce |-> 0,
                    carried |-> 0, reads |-> 0, read3s |-> 0, resets |-> 0]
    /\ UNCHANGED <<spongeVars, signerVars>>

XofReset ==
    /\ call.fn \in {"NewStreamingXOF", "Reset", "Read3"}
    /\ call.resets < MaxResets
    /\ \E seed \in XofSeeds, nonce \in XofNonces :
           /\ call.resets = 0 => seed = <<7>>
           /\ call' = [call EXCEPT !.fn = "Reset", !.out = <<>>,
                                   !.x = Reset(call.x, seed, nonce),
                                   !.seed = seed, !.nonce = nonce,
                                   !.carried = 0,
                                   !.reads = 0, !.resets = call.resets + 1]
    /\ UNCHANGED <<spongeVars, signerVars>>

XofRead3 ==
    /\ call.fn \in {"Reset", "Read3"}
    /\ call.read3s < MaxRead3
    /\ LET r == Read3(call.x)
       IN  call' = [call EXCEPT !.fn = "Read3", !.out = r.ret, !.x = r.x,
                                !.carried =
                                    IF call.x.pos + 3 > call.x.end
                                    THEN call.x.end - call.x.pos
                                    ELSE call.carried,
                                !.reads = call.reads + 1,
                                !.read3s = call.read3s + 1]
    /\ UNCHANGED <<spongeVars, signerVars>>

NextXof == XofNew \/ XofReset \/ XofRead3

SpecXof == Init /\ [][NextXof]_vars

\* C30: after Reset(seed, nonce) the r-th Read3 returns bytes 3r - 3,
\* 3r - 2 and 3r - 1 of the SHAKE output stream for seed followed by the low
\* and the high byte of nonce: no byte is skipped, repeated or reordered
\* across a buffer refill, with or without leftover bytes.
C30_Read3ConsecutiveGroups ==
    call.fn = "Read3"
        => LET input == call.seed \o <<call.nonce % 256, call.nonce \div 256>>
               first == 3 * (call.reads - 1)
           IN  call.out = <<StreamByte(input, first),
                            StreamByte(input, first + 1),
                            StreamByte(input, first + 2)>>

\* a Read3 after a second Reset has returned a group that came from a
\* refill with one leftover byte
C30_Witness ==
    /\ call.fn = "Read3"
    /\ call.resets = 2
    /\ call.carried = 1
    /\ call.x.pos = 3
    /\ call.reads > 1
    /\ call.nonce = 258
=============================================================================
